---- MODULE Spec2Model ----
(***************************************************************************)
(* A model of the StackBrief content-discovery client:                     *)
(*   - Newsletter.fetchPaginatedPosts and the public operations built on   *)
(*     it (src/src/substack-api/newsletter.ts);                            *)
(*   - User.fetchUserData with its one-shot handle-redirect resolution     *)
(*     (src/src/substack-api/user.ts);                                     *)
(*   - Category with its name/id lookup and bounded crawl (category.ts);   *)
(*   - Newsletter.getRecommendations (newsletter.ts);                      *)
(*   - stripHtml and Post with its metadata cache (post.ts);               *)
(*   - SubstackAuth and the headers of a request (auth.ts).                *)
(* Every await of the source is a step of the model: a request is issued   *)
(* in one step and answered by the remote server in another.               *)
(***************************************************************************)
EXTENDS Integers, Sequences, FiniteSets, TLC

(***************************************************************************)
(* Bounds of the model.                                                    *)
(***************************************************************************)
MaxArchive == 16
MaxPageSize == 3
MaxLimit == 4
MaxProbesCounted == 2
MaxRecArchive == 2
MaxPieces == 3
MaxCookies == 3
MaxAuthArchive == 1
MaxSharedArchive == 1
MaxAwaitArchive == 4
MaxJobRuns == 3
MaxLiveArchive == 6
MaxRequests == 20
MaxFeed == 2
MaxCount == 2

(***************************************************************************)
(* Program constants.                                                      *)
(***************************************************************************)
DEFAULT_PAGE_SIZE == 15
REQUEST_DELAY == 2000
MAX_CATEGORY_PAGES == 21

VARIABLES
    \* ---- Newsletter (one instance) and the archive its server holds ----
    nl_archive,     \* the number N of items of the remote archive: items 1..N
    nl_pc,          \* position of the running call
    nl_op,          \* the public operation that started the call
    nl_params,      \* params of fetchPaginatedPosts
    nl_limit,       \* limit of fetchPaginatedPosts: [given, n]
    nl_pageSize,    \* pageSize of fetchPaginatedPosts
    nl_results,     \* local results
    nl_offset,      \* local offset
    nl_moreItems,   \* local moreItems
    nl_response,    \* the response makeRequest holds
    nl_requests,    \* the archive requests issued by the call, in order
    nl_delays,      \* the number of REQUEST_DELAY waits completed by the call
    nl_answers,     \* the server's answers to nl_requests, in order
    nl_outcome,     \* how the call ended
    nl_result,      \* what the call returned
    \* ---- Newsletter.getAuthors (one call at a time) ----
    au_pc,          \* where the call is: idle, inflight, ended
    au_requests,    \* the requests issued by the call
    au_outcome,     \* how the call ended
    \* ---- User (one instance) and the remote profile server ----
    username,
    originalUsername,
    followRedirects,
    endpoint,
    userData,
    redirectAttempted,
    u_pc,
    u_settled,      \* the requests of the call that have settled (answered or rejected)
    u_forceRefresh,
    u_response,
    u_page,
    u_newHandle,
    u_flagAtStart,
    u_requests,
    u_probesEver,
    u_outcome,
    u_error,
    u_result,
    u_prev,
    srv_status,
    srv_rev,
    \* ---- Category (one instance) ----
    cat_name,       \* this.name: [given, v]
    cat_id,         \* this.id: [given, v]
    newslettersData,\* the cached list: [present, list]
    cat_pc,
    cat_op,
    cat_forceRefresh,
    cat_all,        \* local allNewsletters
    cat_pageNum,    \* local pageNum
    cat_more,       \* local more
    cat_response,   \* the page response held during the delay
    cat_requests,   \* the requests issued by the call, in order
    cat_settled,    \* the requests of the call that have settled
    cat_dataAtStart,\* newslettersData when the call started
    cat_outcome,
    cat_result,
    \* ---- Newsletter.getRecommendations (one call at a time) ----
    rec_pc,
    rec_publicationId,  \* local publicationId: [given, v]
    rec_log,            \* the requests of the call and how each settled
    rec_delays,         \* the REQUEST_DELAY waits of its own makeRequest
    rec_outcome,
    rec_result,
    \* ---- stripHtml applied to one input ----
    strip_pc,
    strip_html,     \* the argument
    strip_text,     \* stripHtml(strip_html)
    strip_again,    \* stripHtml(strip_text)
    \* ---- SubstackAuth (one Auth Context) and who holds it ----
    auth_pc,
    auth_source,    \* what the cookie path led to
    cookies,        \* this.cookies, in insertion order
    authenticated,  \* this.authenticated
    auth_outcome,   \* how the constructor ended
    nl_auth,        \* the Newsletter was given the Auth Context
    post_auth,      \* the Post was given the Auth Context
    \* ---- Post (one instance) ----
    post_pc,
    post_url,       \* the path of the url given to the constructor, as characters
    post_endpoint,  \* this.endpoint
    postData,       \* this.postData: [present, data]
    post_op,
    post_forceRefresh,
    post_requests,  \* the requests issued by the call
    post_cacheAtStart,
    post_content,   \* what getContent returned in the call
    post_warned,    \* the call emitted the paywall warning
    post_outcome,
    post_result,
    \* ---- the job (src/index.ts): its runs, the posts table, what was done per post ----
    job_pc,         \* per run: unstarted, check, fetch, save, notify, done
    job_idx,        \* per run: the place in the feed of the post it is processing
    job_timer,      \* the interval timer is set
    job_stopped,    \* stopCron has cleared the timer
    db_posts,       \* the post ids of the rows of the posts table
    job_fetched,    \* per post: the content fetches completed
    job_saved,      \* per post: the rows inserted
    job_notified,   \* per post: the Telegram notifications sent
    \* ---- one run of the job over config.substacks ----
    sub_enabled,    \* per newsletter of config.substacks: its enabled flag
    sub_pc,         \* unstarted, loop, upsert, archive, posts, fetchTime, stats, ended
    sub_idx,        \* the place in config.substacks of the newsletter being processed
    sub_status,     \* per newsletter: pending, skipped, entered, completed, caught, thrown
    sub_failure,    \* per newsletter: the call that failed, none if none did
    sub_outcome     \* of runJob: none, running, returned, newsletterError, statsError

nlVars == <<nl_archive, nl_pc, nl_op, nl_params, nl_limit, nl_pageSize, nl_results,
            nl_offset, nl_moreItems, nl_response, nl_requests, nl_delays,
            nl_answers, nl_outcome, nl_result>>

authorsVars == <<au_pc, au_requests, au_outcome>>

userVars == <<username, originalUsername, followRedirects, endpoint, userData,
              redirectAttempted, u_pc, u_settled, u_forceRefresh, u_response, u_page,
              u_newHandle, u_flagAtStart, u_requests, u_probesEver, u_outcome, u_error, u_result, u_prev,
              srv_status, srv_rev>>

catVars == <<cat_name, cat_id, newslettersData, cat_pc, cat_op, cat_forceRefresh,
             cat_all, cat_pageNum, cat_more, cat_response, cat_requests,
             cat_settled, cat_dataAtStart, cat_outcome, cat_result>>

recVars == <<rec_pc, rec_publicationId, rec_log, rec_delays, rec_outcome, rec_result>>

stripVars == <<strip_pc, strip_html, strip_text, strip_again>>

authVars == <<auth_pc, auth_source, cookies, authenticated, auth_outcome, nl_auth, post_auth>>

postVars == <<post_pc, post_url, post_endpoint, postData, post_op, post_forceRefresh, post_requests,
              post_cacheAtStart, post_content, post_warned, post_outcome, post_result>>

jobVars == <<job_pc, job_idx, job_timer, job_stopped, db_posts, job_fetched, job_saved, job_notified>>

subVars == <<sub_enabled, sub_pc, sub_idx, sub_status, sub_failure, sub_outcome>>

vars == <<nlVars, authorsVars, userVars, catVars, recVars, stripVars, authVars, postVars,
          jobVars, subVars>>

(***************************************************************************)
(* Helpers.                                                                *)
(***************************************************************************)
Min(a, b) == IF a <= b THEN a ELSE b

\* Array.prototype.slice(0, n) for n >= 0
SliceTo(s, n) == SubSeq(s, 1, Min(n, Len(s)))

\* JavaScript truthiness of an optional number: undefined and 0 are falsy
Truthy(l) == l.given /\ l.n # 0

NoLimit == [given |-> FALSE, n |-> 0]
Limit(n) == [given |-> TRUE, n |-> n]

\* What an operation of one component leaves alone: the other components
NLFrame == UNCHANGED <<authorsVars, userVars, catVars, recVars, stripVars, authVars, postVars,
                       jobVars, subVars>>
UserFrame == UNCHANGED <<nlVars, authorsVars, catVars, recVars, stripVars, authVars, postVars,
                         jobVars, subVars>>
CatFrame == UNCHANGED <<nlVars, authorsVars, userVars, recVars, stripVars, authVars, postVars,
                        jobVars, subVars>>
RecFrame == UNCHANGED <<authorsVars, userVars, catVars, stripVars, authVars, postVars,
                        jobVars, subVars>>
StripFrame == UNCHANGED <<nlVars, authorsVars, userVars, catVars, recVars, authVars, postVars,
                          jobVars, subVars>>
PostFrame == UNCHANGED <<nlVars, authorsVars, userVars, catVars, recVars, stripVars, jobVars, subVars>>
JobFrame == UNCHANGED <<nlVars, authorsVars, userVars, catVars, recVars, stripVars, authVars,
                       postVars, subVars>>
SubFrame == UNCHANGED <<nlVars, authorsVars, userVars, catVars, recVars, stripVars, authVars,
                       postVars, jobVars>>

NoResponse == [kind |-> "none", ok |-> FALSE, items |-> <<>>]

(***************************************************************************)
(* SubstackAuth: the cookie source, and the headers of a request.          *)
(***************************************************************************)
\* An entry of the parsed JSON: a {name, value} object, an object without
\* these fields, a primitive (also a character of a JSON string), or null
CookieEntries ==
    {[kind |-> "cookie", name |-> n, value |-> "v"] : n \in {"sid", "lli"}}
        \cup {[kind |-> k, name |-> "undefined", value |-> "undefined"] :
                 k \in {"object", "primitive", "null"}}

RECURSIVE EntryLists(_)
EntryLists(n) ==
    IF n = 0 THEN {<<>>}
    ELSE LET shorter == EntryLists(n - 1) IN
           shorter \cup {Append(l, e) : l \in shorter, e \in CookieEntries}

\* What the cookie path leads to: no file, a file that cannot be read, text
\* that is not JSON, JSON that cannot be iterated (a number, an object, null),
\* or an iterable JSON value with its entries
CookieSources ==
    {[kind |-> k, entries |-> <<>>] :
        k \in {"missing", "unreadable", "invalidJSON", "notIterable"}}
      \cup {[kind |-> "iterable", entries |-> l] : l \in EntryLists(MaxCookies)}

\* Map.prototype.set
MapSet(map, name, value) ==
    IF \E i \in 1..Len(map) : map[i].name = name
      THEN [i \in 1..Len(map) |->
               IF map[i].name = name THEN [name |-> name, value |-> value] ELSE map[i]]
      ELSE Append(map, [name |-> name, value |-> value])

\* line 38: cookie.name of null raises a TypeError
EntryRaises(entry) == entry.kind = "null"

\* loadCookies, lines 37-39: the loop, up to the entry that raises
RECURSIVE LoadEntries(_, _, _)
LoadEntries(entries, k, map) ==
    IF k > Len(entries) THEN [cookies |-> map, completed |-> TRUE]
    ELSE IF EntryRaises(entries[k]) THEN [cookies |-> map, completed |-> FALSE]
    ELSE LoadEntries(entries, k + 1, MapSet(map, entries[k].name, entries[k].value))

\* new SubstackAuth(cookiesPath), lines 17-25, with loadCookies, lines 32-47
SubstackAuth(source) ==
    /\ PostFrame
    /\ auth_pc = "unbuilt"
    /\ LET loaded == IF source.kind = "iterable" THEN LoadEntries(source.entries, 1, <<>>)
                      ELSE [cookies |-> <<>>, completed |-> FALSE]
       IN /\ auth_source' = source
          /\ cookies' = loaded.cookies
          /\ authenticated' = loaded.completed
    /\ auth_pc' = "built"
    /\ auth_outcome' = "constructed"
    /\ UNCHANGED <<nl_auth, post_auth, postVars>>

\* with any cookie source
SubstackAuthNew == \E source \in CookieSources : SubstackAuth(source)

\* with a cookie source that is missing, holds one cookie, or holds a null entry
SubstackAuthOf ==
    \E source \in {c \in CookieSources :
                      \/ c.kind = "missing"
                      \/ c.entries \in {<<e>> : e \in {x \in CookieEntries :
                                                        x.name \in {"sid", "undefined"}
                                                        /\ x.kind \in {"cookie", "null"}}}} :
        SubstackAuth(source)

\* constants.ts HEADERS, and getAuthHeaders, lines 63-70
HEADERS == [name \in {"User-Agent"} |-> <<"Mozilla/5.0">>]

getAuthHeaders ==
    [name \in {"User-Agent", "Accept", "Content-Type", "Cookie"} |->
        CASE name = "User-Agent" -> <<"Mozilla/5.0">>
          [] name = "Cookie" -> cookies
          [] OTHER -> <<"application/json">>]

\* newsletter.ts line 97 and post.ts line 112: if (this.auth?.authenticated)
UsesAuth_WhenAttached(attached) == attached
UsesAuth(attached) == attached /\ authenticated

\* The headers of a request of an object that holds, or not, the Auth Context
RequestHeaders(attached) == IF UsesAuth(attached) THEN getAuthHeaders ELSE HEADERS

\* What sending a request does to the Auth Context of the object that sends it:
\* SubstackAuth.get, auth.ts lines 78-99, reads the cookies into the headers
\* and assigns no field; the plain fetch of makeRequest and of fetchPostData
\* does not touch the Auth Context at all.
SubstackAuthGet_DropsCookies(attached) ==
    /\ cookies' = IF UsesAuth(attached) THEN <<>> ELSE cookies
    /\ UNCHANGED <<auth_pc, auth_source, authenticated, auth_outcome, nl_auth, post_auth>>
SubstackAuthGet(attached) == UNCHANGED authVars

AuthNew ==
    /\ auth_pc = "unbuilt"
    /\ auth_source = [kind |-> "none", entries |-> <<>>]
    /\ cookies = <<>>
    /\ authenticated = FALSE
    /\ auth_outcome = "none"
    /\ nl_auth = FALSE
    /\ post_auth = FALSE

\* new Newsletter(url, auth), lines 81-85
NewsletterNew ==
    /\ PostFrame
    /\ nl_pc = "idle"
    /\ nl_auth = FALSE
    /\ auth_pc = "built"
    /\ nl_auth' = TRUE
    /\ UNCHANGED <<auth_pc, auth_source, cookies, authenticated, auth_outcome, post_auth,
                   postVars>>

(***************************************************************************)
(* The remote archive: PostMetadata records 1..N, most recent first.       *)
(***************************************************************************)
Meta(i) == [kind |-> "meta", id |-> i]
Archive == [i \in 1..nl_archive |-> Meta(i)]

\* The archive slice [offset, offset + size)
ArchiveSlice(offset, size) ==
    SubSeq(Archive, offset + 1, Min(offset + size, nl_archive))

\* new Post(item.canonical_url, this.auth)
PostOf(item) == [kind |-> "post", id |-> item.id]
MapPosts(s) == [i \in 1..Len(s) |-> PostOf(s[i])]

(***************************************************************************)
(* Newsletter: the public operations.  Each builds params and calls        *)
(* fetchPaginatedPosts(params, limit) with the default page size; the      *)
(* private routine itself is also callable with any pageSize >= 1.         *)
(***************************************************************************)
Absent == "(absent)"
Params(sort, search, type) == [sort |-> sort, search |-> search, type |-> type]

Sortings == {"new", "top", "pinned", "community"}
Queries == {"q"}
Limits == {NoLimit} \cup {Limit(n) : n \in 0..MaxLimit}
PageSizes == 1..MaxPageSize

\* fetchPaginatedPosts, lines 127-129: the locals of a fresh call
FetchPaginatedPostsLocals(op, params, limit, pageSize) ==
    /\ nl_pc \in {"idle", "ended"}
    /\ nl_op' = op
    /\ nl_params' = params
    /\ nl_limit' = limit
    /\ nl_pageSize' = pageSize
    /\ nl_results' = <<>>
    /\ nl_offset' = 0
    /\ nl_moreItems' = TRUE
    /\ nl_response' = NoResponse
    /\ nl_requests' = <<>>
    /\ nl_answers' = <<>>
    /\ nl_delays' = 0
    /\ nl_outcome' = "running"
    /\ nl_result' = <<>>
    /\ nl_pc' = "loop"
    /\ UNCHANGED nl_archive

\* a call made by the user of the class
FetchPaginatedPostsStart(op, params, limit, pageSize) ==
    /\ NLFrame
    /\ rec_pc \in {"idle", "ended"}
    /\ au_pc \in {"idle", "ended"}
    /\ FetchPaginatedPostsLocals(op, params, limit, pageSize)

getPosts ==
    \E sorting \in Sortings, limit \in Limits :
        FetchPaginatedPostsStart("getPosts", Params(sorting, Absent, Absent),
                                 limit, DEFAULT_PAGE_SIZE)

getPostsMetadata ==
    \E sorting \in Sortings, limit \in Limits :
        FetchPaginatedPostsStart("getPostsMetadata", Params(sorting, Absent, Absent),
                                 limit, DEFAULT_PAGE_SIZE)

searchPosts ==
    \E query \in Queries, limit \in Limits :
        FetchPaginatedPostsStart("searchPosts", Params("new", query, Absent),
                                 limit, DEFAULT_PAGE_SIZE)

getPodcasts ==
    \E limit \in Limits :
        FetchPaginatedPostsStart("getPodcasts", Params("new", Absent, "podcast"),
                                 limit, DEFAULT_PAGE_SIZE)

fetchPaginatedPosts ==
    \E limit \in Limits, pageSize \in PageSizes :
        FetchPaginatedPostsStart("fetchPaginatedPosts", Params("new", Absent, Absent),
                                 limit, pageSize)

\* What the public operation hands to its caller for the metadata list `list`
Wrap(op, list) ==
    IF op \in {"getPosts", "searchPosts", "getPodcasts"} THEN MapPosts(list) ELSE list

\* The call ends: it returns `list`, or fails with `outcome`
NLEnd(outcome, list) ==
    /\ nl_pc' = "ended"
    /\ nl_outcome' = outcome
    /\ nl_result' = IF outcome = "returned" THEN Wrap(nl_op, list) ELSE <<>>

\* line 140: const response = await this.makeRequest(endpoint); the loop
\* takes its next turn only when the request of this turn has settled
LoopTurn_NotAwaited == nl_pc \in {"loop", "inflight"}
LoopTurn == nl_pc = "loop"

\* line 131, while (moreItems), and lines 133-140: the next archive request
NLIssueRequest ==
    /\ UNCHANGED <<authorsVars, userVars, catVars, recVars, stripVars, postVars, jobVars, subVars>>
    /\ SubstackAuthGet(nl_auth)
    /\ LoopTurn
    /\ Len(nl_requests) < MaxRequests
    /\ nl_moreItems
    /\ nl_requests' = Append(nl_requests,
           [offset |-> nl_offset, limit |-> nl_pageSize, params |-> nl_params,
            headers |-> RequestHeaders(nl_auth)])
    /\ nl_pc' = "inflight"
    /\ UNCHANGED <<nl_archive, nl_op, nl_params, nl_limit, nl_pageSize, nl_results,
                   nl_offset, nl_moreItems, nl_response, nl_answers, nl_delays,
                   nl_outcome, nl_result>>

\* line 131 with moreItems false, and line 168: return results
NLLoopExit ==
    /\ NLFrame
    /\ nl_pc = "loop"
    /\ ~nl_moreItems
    /\ NLEnd("returned", nl_results)
    /\ UNCHANGED <<nl_archive, nl_op, nl_params, nl_limit, nl_pageSize, nl_results,
                   nl_offset, nl_moreItems, nl_response, nl_requests, nl_answers,
                   nl_delays>>

\* The answers the server may give to the request at `offset` for `size` items:
\* the slice (2xx), a shorter prefix of it (2xx, an unfaithful server), a
\* non-2xx status, or no answer at all (timeout, connection failure).
Answers(offset, size) ==
    LET slice == ArchiveSlice(offset, size) IN
      {[kind |-> "ok", ok |-> TRUE, items |-> SliceTo(slice, k)] : k \in 0..Len(slice)}
      \cup {[kind |-> "status", ok |-> FALSE, items |-> <<>>],
            [kind |-> "netfail", ok |-> FALSE, items |-> <<>>]}

LastRequest == nl_requests[Len(nl_requests)]

\* makeRequest, lines 100-111: fetch settles; a rejected fetch leaves makeRequest
\* and fetchPaginatedPosts at once (no delay, no return value)
NLServerAnswer ==
    /\ NLFrame
    /\ nl_pc = "inflight"
    /\ \E a \in Answers(LastRequest.offset, LastRequest.limit) :
         /\ nl_answers' = Append(nl_answers,
                [kind |-> a.kind, n |-> Len(a.items),
                 faithful |-> (a.kind = "ok"
                               /\ a.items = ArchiveSlice(LastRequest.offset,
                                                         LastRequest.limit))])
         /\ IF a.kind = "netfail"
              THEN /\ NLEnd("networkError", <<>>)
                   /\ UNCHANGED nl_response
              ELSE /\ nl_response' = a
                   /\ nl_pc' = "delay"
                   /\ UNCHANGED <<nl_outcome, nl_result>>
    /\ UNCHANGED <<nl_archive, nl_op, nl_params, nl_limit, nl_pageSize, nl_results,
                   nl_offset, nl_moreItems, nl_requests, nl_delays>>

\* makeRequest, lines 113-116: await delay(REQUEST_DELAY), then return response
NLDelay ==
    /\ NLFrame
    /\ nl_pc = "delay"
    /\ nl_delays' = nl_delays + 1
    /\ nl_pc' = "page"
    /\ UNCHANGED <<nl_archive, nl_op, nl_params, nl_limit, nl_pageSize, nl_results,
                   nl_offset, nl_moreItems, nl_response, nl_requests, nl_answers,
                   nl_outcome, nl_result>>

\* line 142: if (!response.ok) throw
PageFailed_Ignored(response) == FALSE
PageFailed(response) == ~response.ok

\* line 150: if (!items || items.length === 0) break
PageEmpty(items) == Len(items) = 0

\* line 155: offset += pageSize
NextOffset_Rewind(offset, pageSize) == IF offset = 0 THEN pageSize ELSE 0
NextOffset_Stuck(offset, pageSize) == offset
NextOffset_ByOne(offset, pageSize) == offset + 1
NextOffset(offset, pageSize) == offset + pageSize

\* line 158: if (limit && results.length >= limit)
LimitReached_Strict(limit, results) == Truthy(limit) /\ Len(results) > limit.n
LimitReached(limit, results) == Truthy(limit) /\ Len(results) >= limit.n

\* line 163: if (items.length < pageSize)
LastPage_Never(items, pageSize) == FALSE
LastPage(items, pageSize) == Len(items) < pageSize

\* lines 142-165: the page is examined
NLProcessPage ==
    /\ NLFrame
    /\ nl_pc = "page"
    /\ IF PageFailed(nl_response)
         THEN \* line 143: throw
              /\ NLEnd("fetchError", <<>>)
              /\ UNCHANGED <<nl_results, nl_offset, nl_moreItems>>
         ELSE IF PageEmpty(nl_response.items)
         THEN \* line 151: break, then line 168
              /\ NLEnd("returned", nl_results)
              /\ UNCHANGED <<nl_results, nl_offset, nl_moreItems>>
         ELSE LET results == nl_results \o nl_response.items IN
              /\ nl_results' = results
              /\ nl_offset' = NextOffset(nl_offset, nl_pageSize)
              /\ IF LimitReached(nl_limit, results)
                   THEN \* line 159
                        /\ NLEnd("returned", SliceTo(results, nl_limit.n))
                        /\ UNCHANGED nl_moreItems
                   ELSE \* lines 163-165
                        /\ nl_moreItems' = IF LastPage(nl_response.items, nl_pageSize)
                                             THEN FALSE ELSE nl_moreItems
                        /\ nl_pc' = "loop"
                        /\ UNCHANGED <<nl_outcome, nl_result>>
    /\ UNCHANGED <<nl_archive, nl_op, nl_params, nl_limit, nl_pageSize, nl_response,
                   nl_requests, nl_answers, nl_delays>>

\* getAuthors, lines 311-313: one request to /api/v1/publication/users/ranked
getAuthors ==
    /\ UNCHANGED <<nlVars, userVars, catVars, recVars, stripVars, postVars, jobVars, subVars>>
    /\ SubstackAuthGet(nl_auth)
    /\ au_pc \in {"idle", "ended"}
    /\ nl_pc \in {"idle", "ended"}
    /\ rec_pc \in {"idle", "ended"}
    /\ au_requests' = <<[url |-> "/api/v1/publication/users/ranked?public=true",
                         headers |-> RequestHeaders(nl_auth)]>>
    /\ au_outcome' = "running"
    /\ au_pc' = "inflight"

\* makeRequest, lines 100-116, and getAuthors, lines 315-321: the request
\* settles; a non-2xx answer raises "Failed to fetch authors"
AuthorsAnswer ==
    /\ UNCHANGED <<nlVars, userVars, catVars, recVars, stripVars, authVars, postVars,
                   jobVars, subVars>>
    /\ au_pc = "inflight"
    /\ \E kind \in {"ok", "malformed", "status", "netfail"} :
         au_outcome' = CASE kind = "ok" -> "returned"
                         [] kind = "malformed" -> "parseError"
                         [] kind = "status" -> "fetchError"
                         [] kind = "netfail" -> "networkError"
    /\ au_pc' = "ended"
    /\ UNCHANGED au_requests

NLInit ==
    /\ nl_archive \in 0..MaxArchive
    /\ nl_pc = "idle"
    /\ nl_op = "none"
    /\ nl_params = Params("new", Absent, Absent)
    /\ nl_limit = NoLimit
    /\ nl_pageSize = DEFAULT_PAGE_SIZE
    /\ nl_results = <<>>
    /\ nl_offset = 0
    /\ nl_moreItems = TRUE
    /\ nl_response = NoResponse
    /\ nl_requests = <<>>
    /\ nl_answers = <<>>
    /\ nl_delays = 0
    /\ nl_outcome = "none"
    /\ nl_result = <<>>
    /\ au_pc = "idle"
    /\ au_requests = <<>>
    /\ au_outcome = "none"

NLNext ==
    \/ getPosts
    \/ getPostsMetadata
    \/ searchPosts
    \/ getPodcasts
    \/ fetchPaginatedPosts
    \/ NLIssueRequest
    \/ NLLoopExit
    \/ NLServerAnswer
    \/ NLDelay
    \/ NLProcessPage

(***************************************************************************)
(* User: the remote profile server.                                        *)
(***************************************************************************)
Handles == {"old", "new"}
NoHandle == ""
Revs == {0, 1}

\* What the profile endpoint of a handle answers: 2xx, 404, another non-2xx
\* status, or nothing (timeout, connection failure)
ProfileAnswers ==
    {[kind |-> "ok", status |-> 200], [kind |-> "status", status |-> 404],
     [kind |-> "status", status |-> 500], [kind |-> "netfail", status |-> 0]}

\* /api/v1/user/{handle}/public_profile
ProfileEndpoint(handle) == [profile |-> handle]

\* The UserProfile the server holds for a handle
ProfileOf(handle) == [present |-> TRUE, handle |-> handle, rev |-> srv_rev]
NoData == [present |-> FALSE, handle |-> NoHandle, rev |-> 0]

\* What the profile page /@{handle} answers once redirects are followed: the
\* status, and the first segment of the final URL's path (an @handle or not)
PageAnswers ==
    {[kind |-> k, at |-> a, name |-> n] :
        k \in {"ok", "status", "netfail"}, a \in BOOLEAN, n \in Handles \cup {NoHandle}}

\* resolveHandleRedirect, lines 9-46: the new handle, or null (NoHandle)
ResolveHandleRedirect_SameHandle(oldHandle, page) ==
    IF page.kind = "ok" /\ page.at /\ page.name # NoHandle
      THEN page.name
      ELSE NoHandle
ResolveHandleRedirect(oldHandle, page) ==
    IF page.kind = "ok" /\ page.at /\ page.name # NoHandle /\ page.name # oldHandle
      THEN page.name
      ELSE NoHandle

NoError == [msg |-> "none", status |-> 0, handle |-> NoHandle]
NoAnswer == [kind |-> "none", status |-> 0]
NoPage == [kind |-> "none", at |-> FALSE, name |-> NoHandle]
NoPrev == [outcome |-> "none", result |-> NoData, viaRedirect |-> FALSE,
           fetched |-> NoData]

ProfileRequest(handle) == [to |-> "profile", handle |-> handle]
ProbeRequest(handle) == [to |-> "page", handle |-> handle]

ProbesOf(reqs) == {i \in 1..Len(reqs) : reqs[i].to = "page"}
ProfilesOf(reqs) == {i \in 1..Len(reqs) : reqs[i].to = "profile"}

\* The running call was resolved through a redirect: its retry was answered 2xx
ViaRedirect(reqs, outcome) == outcome = "returned" /\ Len(reqs) = 3

\* fetchUserData ends: it returns `data`, or fails
UEnd(outcome, error, data) ==
    /\ u_pc' = "ended"
    /\ u_outcome' = outcome
    /\ u_error' = error
    /\ u_result' = data

\* line 92: if (this.userData !== null && !forceRefresh)
CacheHit_Never(forceRefresh) == FALSE
CacheHit(forceRefresh) == userData.present /\ ~forceRefresh

\* fetchUserData, lines 91-103 (getRawData, getId, getName, getProfileSetUpAt and
\* getSubscriptions all enter here): the cached profile, or the first request
fetchUserData(forceRefresh) ==
    /\ UserFrame
    /\ u_settled' = 0
    /\ u_pc = "idle"
    /\ u_forceRefresh' = forceRefresh
    /\ u_flagAtStart' = redirectAttempted
    /\ u_response' = NoAnswer
    /\ u_page' = NoPage
    /\ u_newHandle' = NoHandle
    /\ IF CacheHit(forceRefresh)
         THEN /\ UEnd("returned", NoError, userData)
              /\ u_requests' = <<>>
         ELSE /\ u_requests' = <<ProfileRequest(endpoint.profile)>>
              /\ u_pc' = "fetch"
              /\ u_outcome' = "running"
              /\ u_error' = NoError
              /\ u_result' = NoData
    /\ UNCHANGED <<username, originalUsername, followRedirects, endpoint, userData,
                   redirectAttempted, u_probesEver, u_prev, srv_status, srv_rev>>

\* lines 100 and 134: await fetch(...) rejects on a timeout or a connection
\* failure; nothing in fetchUserData catches it
FetchRejected_Swallowed(answer) == FALSE
FetchRejected(answer) == answer.kind = "netfail"

\* line 100: the first fetch settles; a rejected fetch leaves fetchUserData
UProfileAnswer ==
    /\ UserFrame
    /\ u_settled' = u_settled + 1
    /\ u_pc = "fetch"
    /\ LET a == srv_status[u_requests[Len(u_requests)].handle] IN
         IF FetchRejected(a)
           THEN /\ UEnd("networkError", NoError, NoData)
                /\ UNCHANGED u_response
           ELSE /\ u_response' = a
                /\ u_pc' = "got"
                /\ UNCHANGED <<u_outcome, u_error, u_result>>
    /\ UNCHANGED <<username, originalUsername, followRedirects, endpoint, userData,
                   redirectAttempted, u_forceRefresh, u_page, u_newHandle,
                   u_flagAtStart, u_requests, u_probesEver, u_prev, srv_status,
                   srv_rev>>

\* lines 111-115: the condition under which a redirect is tried
ShouldRedirect_AnyStatus(response) ==
    followRedirects /\ ~redirectAttempted
ShouldRedirect_IgnoresFlag(response) ==
    response.status = 404 /\ followRedirects
ShouldRedirect(response) ==
    response.status = 404 /\ followRedirects /\ ~redirectAttempted

\* line 117: this.redirectAttempted = true
MarkRedirectAttempted_Forgotten == UNCHANGED redirectAttempted
MarkRedirectAttempted == redirectAttempted' = TRUE

\* lines 105-117 and 158-160: the first response is examined
UHandleResponse ==
    /\ UserFrame
    /\ UNCHANGED u_settled
    /\ u_pc = "got"
    /\ IF u_response.kind = "ok"
         THEN /\ userData' = ProfileOf(u_requests[1].handle)
              /\ UEnd("returned", NoError, userData')
              /\ UNCHANGED redirectAttempted
         ELSE IF ShouldRedirect(u_response)
         THEN /\ MarkRedirectAttempted
              /\ u_pc' = "probe"
              /\ UNCHANGED <<userData, u_outcome, u_error, u_result>>
         ELSE /\ UEnd("fetchError",
                      [msg |-> "Failed to fetch user data", status |-> u_response.status,
                       handle |-> NoHandle],
                      NoData)
              /\ UNCHANGED <<userData, redirectAttempted>>
    /\ UNCHANGED <<username, originalUsername, followRedirects, endpoint,
                   u_forceRefresh, u_response, u_page, u_newHandle, u_flagAtStart,
                   u_requests, u_probesEver, u_prev, srv_status, srv_rev>>

\* line 120 and resolveHandleRedirect line 16: the redirect probe is sent
UIssueProbe ==
    /\ UserFrame
    /\ UNCHANGED u_settled
    /\ u_pc = "probe"
    /\ u_requests' = Append(u_requests, ProbeRequest(username))
    /\ u_probesEver' = Min(u_probesEver + 1, MaxProbesCounted)
    /\ u_pc' = "probing"
    /\ UNCHANGED <<username, originalUsername, followRedirects, endpoint, userData,
                   redirectAttempted, u_forceRefresh, u_response, u_page,
                   u_newHandle, u_flagAtStart, u_outcome, u_error, u_result, u_prev,
                   srv_status, srv_rev>>

\* resolveHandleRedirect settles with the new handle or null
UProbeAnswer ==
    /\ UserFrame
    /\ u_settled' = u_settled + 1
    /\ u_pc = "probing"
    /\ \E page \in PageAnswers :
         /\ u_page' = page
         /\ u_newHandle' =
                ResolveHandleRedirect(u_requests[Len(u_requests)].handle, page)
    /\ u_pc' = "probed"
    /\ UNCHANGED <<username, originalUsername, followRedirects, endpoint, userData,
                   redirectAttempted, u_forceRefresh, u_response, u_flagAtStart,
                   u_requests, u_probesEver, u_outcome, u_error, u_result, u_prev,
                   srv_status, srv_rev>>

\* updateHandle, lines 79-83
UpdateHandle_EndpointOnly(newHandle) ==
    /\ endpoint' = ProfileEndpoint(newHandle)
    /\ UNCHANGED username
UpdateHandle_UsernameOnly(newHandle) ==
    /\ username' = newHandle
    /\ UNCHANGED endpoint
UpdateHandle(newHandle) ==
    /\ username' = newHandle
    /\ endpoint' = ProfileEndpoint(newHandle)

\* lines 122-137 and 150-160: retry against the new handle, or give up
UAfterProbe ==
    /\ UserFrame
    /\ UNCHANGED u_settled
    /\ u_pc = "probed"
    /\ IF u_newHandle # NoHandle
         THEN /\ UpdateHandle(u_newHandle)
              /\ u_requests' = Append(u_requests, ProfileRequest(endpoint'.profile))
              /\ u_pc' = "retry"
              /\ UNCHANGED <<u_outcome, u_error, u_result>>
         ELSE /\ UEnd("fetchError",
                      [msg |-> "Failed to fetch user data", status |-> u_response.status,
                       handle |-> NoHandle],
                      NoData)
              /\ UNCHANGED <<username, endpoint, u_requests>>
    /\ UNCHANGED <<originalUsername, followRedirects, userData, redirectAttempted,
                   u_forceRefresh, u_response, u_page, u_newHandle, u_flagAtStart,
                   u_probesEver, u_prev, srv_status, srv_rev>>

\* A retry loop in place of lines 144-146: a failed retry is sent again
URetryAnswer_Again ==
    /\ UserFrame
    /\ u_settled' = u_settled + 1
    /\ u_pc = "retry"
    /\ LET a == srv_status[u_requests[Len(u_requests)].handle] IN
         IF a.kind = "ok"
           THEN /\ userData' = ProfileOf(u_requests[Len(u_requests)].handle)
                /\ UEnd("returned", NoError, userData')
                /\ UNCHANGED u_requests
           ELSE /\ u_requests' = Append(u_requests, ProfileRequest(endpoint.profile))
                /\ UNCHANGED <<userData, u_pc, u_outcome, u_error, u_result>>
    /\ UNCHANGED <<username, originalUsername, followRedirects, endpoint,
                   redirectAttempted, u_forceRefresh, u_response, u_page,
                   u_newHandle, u_flagAtStart, u_probesEver, u_prev,
                   srv_status, srv_rev>>

\* lines 134-146: the retry settles and is examined
URetryAnswer ==
    /\ UserFrame
    /\ u_settled' = u_settled + 1
    /\ u_pc = "retry"
    /\ LET a == srv_status[u_requests[Len(u_requests)].handle] IN
         IF FetchRejected(a)
           THEN /\ UEnd("networkError", NoError, NoData)
                /\ UNCHANGED userData
         ELSE IF a.kind = "ok"
           THEN /\ userData' = ProfileOf(u_requests[Len(u_requests)].handle)
                /\ UEnd("returned", NoError, userData')
           ELSE /\ UEnd("fetchError",
                        [msg |-> "Failed to fetch user data even after redirect",
                         status |-> a.status, handle |-> u_newHandle],
                        NoData)
                /\ UNCHANGED userData
    /\ UNCHANGED <<username, originalUsername, followRedirects, endpoint,
                   redirectAttempted, u_forceRefresh, u_response, u_page,
                   u_newHandle, u_flagAtStart, u_requests, u_probesEver, u_prev,
                   srv_status, srv_rev>>

\* The promise of fetchUserData has settled and the caller goes on
USettled ==
    /\ UserFrame
    /\ UNCHANGED u_settled
    /\ u_pc = "ended"
    /\ u_pc' = "idle"
    /\ u_prev' = [outcome |-> u_outcome, result |-> u_result,
                  viaRedirect |-> ViaRedirect(u_requests, u_outcome),
                  fetched |-> IF u_outcome = "returned" THEN u_result
                              ELSE u_prev.fetched]
    /\ UNCHANGED <<username, originalUsername, followRedirects, endpoint, userData,
                   redirectAttempted, u_forceRefresh, u_response, u_page,
                   u_newHandle, u_flagAtStart, u_requests, u_probesEver, u_outcome,
                   u_error, u_result, srv_status, srv_rev>>

\* Between two calls the remote server may change what it answers
UServerChange ==
    /\ UserFrame
    /\ UNCHANGED u_settled
    /\ u_pc = "idle"
    /\ srv_status' \in [Handles -> ProfileAnswers]
    /\ srv_rev' \in Revs
    /\ <<srv_status', srv_rev'>> # <<srv_status, srv_rev>>
    /\ UNCHANGED <<username, originalUsername, followRedirects, endpoint, userData,
                   redirectAttempted, u_pc, u_forceRefresh, u_response, u_page,
                   u_newHandle, u_flagAtStart, u_requests, u_probesEver, u_outcome,
                   u_error, u_result, u_prev>>

\* wasRedirected, lines 202-204
wasRedirected == username # originalUsername

\* new User(username, followRedirects), lines 65-70, and the fields' initialisers
UserNew(handle, follow) ==
    /\ username = handle
    /\ originalUsername = handle
    /\ followRedirects = follow
    /\ endpoint = ProfileEndpoint(handle)
    /\ userData = NoData
    /\ redirectAttempted = FALSE
    /\ u_pc = "idle"
    /\ u_settled = 0
    /\ u_forceRefresh = FALSE
    /\ u_response = NoAnswer
    /\ u_page = NoPage
    /\ u_newHandle = NoHandle
    /\ u_flagAtStart = FALSE
    /\ u_requests = <<>>
    /\ u_probesEver = 0
    /\ u_outcome = "none"
    /\ u_error = NoError
    /\ u_result = NoData
    /\ u_prev = NoPrev

UserInit ==
    /\ \E handle \in Handles, follow \in BOOLEAN : UserNew(handle, follow)
    /\ srv_status \in [Handles -> ProfileAnswers]
    /\ srv_rev \in Revs

UserNext ==
    \/ \E forceRefresh \in BOOLEAN : fetchUserData(forceRefresh)
    \/ UProfileAnswer
    \/ UHandleResponse
    \/ UIssueProbe
    \/ UProbeAnswer
    \/ UAfterProbe
    \/ URetryAnswer
    \/ USettled
    \/ UServerChange

(***************************************************************************)
(* Category: name/id resolution and the bounded crawl of its listing.      *)
(***************************************************************************)
\* What the server lists at /api/v1/categories, in order
CategoryList == <<[name |-> "News", id |-> 0], [name |-> "Tech", id |-> 4]>>

CatNames == {"News", "Tech", "Nope", ""}
CatIds == {0, 4, 9}
NoName == [given |-> FALSE, v |-> ""]
NoId == [given |-> FALSE, v |-> 0]

\* A NewsletterData record of the listing, and what the operations make of it
Pub(page) == [kind |-> "data", id |-> page]
CatWrap(op, list) ==
    [i \in 1..Len(list) |->
        [kind |-> CASE op = "getNewsletterUrls" -> "base_url"
                    [] op = "getNewsletters" -> "newsletter"
                    [] OTHER -> "data",
         id |-> list[i].id]]

\* Array.prototype.find over the category list: the first entry that matches
FindCategory(field, value) ==
    LET hits == {i \in 1..Len(CategoryList) : CategoryList[i][field] = value} IN
      IF hits = {} THEN [found |-> FALSE, name |-> "", id |-> 0]
      ELSE LET i == CHOOSE k \in hits : \A j \in hits : k <= j IN
             [found |-> TRUE, name |-> CategoryList[i].name, id |-> CategoryList[i].id]

\* init, lines 79-83: which lookup init() performs
InitLookup ==
    IF cat_name.given /\ cat_name.v # "" /\ ~cat_id.given THEN "getIdFromName"
    ELSE IF cat_id.given /\ cat_id.v # 0 /\ ~cat_name.given THEN "getNameFromId"
    ELSE "none"

CatEnd(outcome, list) ==
    /\ cat_pc' = "ended"
    /\ cat_outcome' = outcome
    /\ cat_result' = IF outcome = "returned" /\ cat_op \notin {"init", "refreshData"}
                       THEN CatWrap(cat_op, list) ELSE <<>>

\* The locals of a call, and where it goes first
CatEnter(op, forceRefresh, pc) ==
    /\ cat_op' = op
    /\ cat_forceRefresh' = forceRefresh
    /\ cat_all' = <<>>
    /\ cat_pageNum' = 0
    /\ cat_more' = TRUE
    /\ cat_response' = [kind |-> "none", publications |-> <<>>, more |-> FALSE]
    /\ cat_dataAtStart' = newslettersData
    /\ cat_settled' = 0
    /\ cat_requests' = IF pc = "listing" THEN <<[to |-> "categories", id |-> NoId, page |-> 0]>>
                       ELSE <<>>
    /\ cat_pc' = pc

\* init(), lines 78-84, called by the user of the class
CatInit ==
    /\ CatFrame
    /\ cat_pc \in {"idle", "ended"}
    /\ IF InitLookup = "none"
         THEN /\ CatEnter("init", FALSE, "ended")
              /\ cat_outcome' = "returned"
         ELSE /\ CatEnter("init", FALSE, "listing")
              /\ cat_outcome' = "running"
    /\ cat_result' = <<>>
    /\ UNCHANGED <<cat_name, cat_id, newslettersData>>

\* line 122: if (this.newslettersData !== null && !forceRefresh)
CatCacheHit_Never(forceRefresh) == FALSE
CatCacheHit(forceRefresh) == newslettersData.present /\ ~forceRefresh

\* fetchNewslettersData, lines 119-133, entered by getNewsletterUrls,
\* getNewsletters (through getNewsletterUrls), getNewsletterMetadata and
\* refreshData (forceRefresh = true)
fetchNewslettersData(op, forceRefresh) ==
    /\ CatFrame
    /\ cat_pc \in {"idle", "ended"}
    /\ IF CatCacheHit(forceRefresh)
         THEN /\ CatEnter(op, forceRefresh, "ended")
              /\ cat_outcome' = "returned"
              /\ cat_result' = IF op = "refreshData" THEN <<>>
                                ELSE CatWrap(op, newslettersData.list)
         ELSE /\ IF ~cat_id.given /\ InitLookup = "getIdFromName"
                   THEN CatEnter(op, forceRefresh, "listing")
                   ELSE CatEnter(op, forceRefresh, "loop")
              /\ cat_outcome' = "running"
              /\ cat_result' = <<>>
    /\ UNCHANGED <<cat_name, cat_id, newslettersData>>

\* listAllCategories, lines 26-47, and getIdFromName / getNameFromId, lines 89-112
CatListAnswer ==
    /\ CatFrame
    /\ cat_settled' = cat_settled + 1
    /\ cat_pc = "listing"
    /\ \E kind \in {"ok", "status", "netfail"} :
         IF kind # "ok"
           THEN /\ CatEnd(IF kind = "status" THEN "fetchError" ELSE "networkError", <<>>)
                /\ UNCHANGED <<cat_name, cat_id>>
           ELSE LET lookup == InitLookup
                    found == IF lookup = "getIdFromName"
                               THEN FindCategory("name", cat_name.v)
                               ELSE FindCategory("id", cat_id.v)
                IN IF ~found.found
                     THEN /\ CatEnd("notFoundError", <<>>)
                          /\ UNCHANGED <<cat_name, cat_id>>
                     ELSE /\ IF lookup = "getIdFromName"
                               THEN /\ cat_id' = [given |-> TRUE, v |-> found.id]
                                    /\ UNCHANGED cat_name
                               ELSE /\ cat_name' = [given |-> TRUE, v |-> found.name]
                                    /\ UNCHANGED cat_id
                          /\ IF cat_op = "init"
                               THEN CatEnd("returned", <<>>)
                               ELSE /\ cat_pc' = "loop"
                                    /\ UNCHANGED <<cat_outcome, cat_result>>
    /\ UNCHANGED <<newslettersData, cat_op, cat_forceRefresh, cat_all, cat_pageNum,
                   cat_more, cat_response, cat_requests, cat_dataAtStart>>

\* line 136: while (more && pageNum <= MAX_CATEGORY_PAGES)
CrawlGoesOn_IgnoresMore(more, pageNum) == pageNum <= MAX_CATEGORY_PAGES
CrawlGoesOn(more, pageNum) == more /\ pageNum <= MAX_CATEGORY_PAGES

\* lines 136-146: the next page is requested
CatIssueRequest ==
    /\ CatFrame
    /\ UNCHANGED cat_settled
    /\ cat_pc = "loop"
    /\ CrawlGoesOn(cat_more, cat_pageNum)
    /\ cat_requests' = Append(cat_requests,
                              [to |-> "category", id |-> cat_id, page |-> cat_pageNum])
    /\ cat_pc' = "inflight"
    /\ UNCHANGED <<cat_name, cat_id, newslettersData, cat_op, cat_forceRefresh, cat_all,
                   cat_pageNum, cat_more, cat_response, cat_dataAtStart, cat_outcome,
                   cat_result>>

\* lines 166-167: the loop is left, the list is cached and returned
CatLoopExit ==
    /\ CatFrame
    /\ UNCHANGED cat_settled
    /\ cat_pc = "loop"
    /\ ~CrawlGoesOn(cat_more, cat_pageNum)
    /\ newslettersData' = [present |-> TRUE, list |-> cat_all]
    /\ CatEnd("returned", cat_all)
    /\ UNCHANGED <<cat_name, cat_id, cat_op, cat_forceRefresh, cat_all, cat_pageNum,
                   cat_more, cat_response, cat_requests, cat_dataAtStart>>

\* lines 148-152 and 166: the throw of a failing page leaves the loop and
\* the function before this.newslettersData is assigned
CacheOnFailure_Partial(partial) == newslettersData' = [present |-> TRUE, list |-> partial]
CacheOnFailure(partial) == UNCHANGED newslettersData

\* lines 143-152: the page request settles: a page of the listing with its
\* more flag, a non-2xx status, or no answer (timeout, connection failure)
CatPageAnswer ==
    /\ CatFrame
    /\ cat_settled' = cat_settled + 1
    /\ cat_pc = "inflight"
    /\ \E kind \in {"ok", "status", "netfail"}, more \in BOOLEAN :
         IF kind = "ok"
           THEN /\ cat_response' =
                     [kind |-> "ok",
                      publications |-> <<Pub(cat_requests[Len(cat_requests)].page)>>,
                      more |-> more]
                /\ cat_pc' = "delay"
                /\ UNCHANGED <<cat_outcome, cat_result, newslettersData>>
           ELSE /\ ~more
                /\ CatEnd(IF kind = "status" THEN "fetchError" ELSE "networkError", <<>>)
                /\ CacheOnFailure(cat_all)
                /\ UNCHANGED cat_response
    /\ UNCHANGED <<cat_name, cat_id, cat_op, cat_forceRefresh, cat_all,
                   cat_pageNum, cat_more, cat_requests, cat_dataAtStart>>

\* lines 155-160: the delay, then the page is added
CatDelayAndAdd ==
    /\ CatFrame
    /\ UNCHANGED cat_settled
    /\ cat_pc = "delay"
    /\ cat_all' = cat_all \o cat_response.publications
    /\ cat_pageNum' = cat_pageNum + 1
    /\ cat_more' = cat_response.more
    /\ cat_pc' = "loop"
    /\ UNCHANGED <<cat_name, cat_id, newslettersData, cat_op, cat_forceRefresh,
                   cat_response, cat_requests, cat_dataAtStart, cat_outcome, cat_result>>

\* new Category({name, id}), lines 61-68: at least one of the two is given
CategoryNew(name, id) ==
    /\ cat_name = name
    /\ cat_id = id
    /\ newslettersData = [present |-> FALSE, list |-> <<>>]
    /\ cat_pc = "idle"
    /\ cat_op = "none"
    /\ cat_forceRefresh = FALSE
    /\ cat_all = <<>>
    /\ cat_pageNum = 0
    /\ cat_more = TRUE
    /\ cat_response = [kind |-> "none", publications |-> <<>>, more |-> FALSE]
    /\ cat_requests = <<>>
    /\ cat_settled = 0
    /\ cat_dataAtStart = [present |-> FALSE, list |-> <<>>]
    /\ cat_outcome = "none"
    /\ cat_result = <<>>

CatParked == CategoryNew([given |-> TRUE, v |-> "Tech"], [given |-> TRUE, v |-> 4])

CatNext ==
    \/ CatInit
    \/ \E op \in {"getNewsletterUrls", "getNewsletters", "getNewsletterMetadata"} :
         fetchNewslettersData(op, FALSE)
    \/ fetchNewslettersData("refreshData", TRUE)
    \/ CatListAnswer
    \/ CatIssueRequest
    \/ CatLoopExit
    \/ CatPageAnswer
    \/ CatDelayAndAdd

(***************************************************************************)
(* Newsletter.getRecommendations: discovery search, post-derived fallback, *)
(* recommendations request.                                                *)
(***************************************************************************)
NoPublicationId == [given |-> FALSE, v |-> 0]
PublicationIds == {0, 7}

\* line 270 and line 281: if (!publicationId)
HasPublicationId_Always(p) == TRUE
HasPublicationId(p) == p.given /\ p.v # 0

\* How a request can settle: a 2xx answer with a usable body, a 2xx answer
\* with a malformed body, a non-2xx status, or no answer at all
Settlements == {"ok", "malformed", "status", "netfail"}

\* The recommendedPublication entries a recommendations body can hold
RecEntries == {"custom_domain", "subdomain", "neither"}
RecBodies == {<<>>} \cup {<<a>> : a \in RecEntries}
                    \cup {<<a, b>> : a \in RecEntries, b \in RecEntries}

\* lines 293-304: the urls built from a recommendations body
RecUrls(body) ==
    LET kept == SelectSeq(body, LAMBDA e : e # "neither") IN
      [i \in 1..Len(kept) |-> [kind |-> "newsletter", url |-> kept[i]]]

RecEnd(outcome, list) ==
    /\ rec_pc' = "ended"
    /\ rec_outcome' = outcome
    /\ rec_result' = list

\* line 267: getRecommendations is called; the discovery search is issued
getRecommendations ==
    /\ RecFrame
    /\ rec_pc \in {"idle", "ended"}
    /\ nl_pc \in {"idle", "ended"}
    /\ au_pc \in {"idle", "ended"}
    /\ rec_pc' = "discovery"
    /\ rec_publicationId' = NoPublicationId
    /\ rec_log' = <<[to |-> "discovery", kind |-> "pending"]>>
    /\ rec_delays' = 0
    /\ rec_outcome' = "running"
    /\ rec_result' = <<>>
    /\ UNCHANGED nlVars

RecSettle(kind) == [rec_log EXCEPT ![Len(rec_log)].kind = kind]

\* lines 285-286: the recommendations request is issued
RecIssue(id) ==
    /\ rec_publicationId' = id
    /\ rec_pc' = "recommendations"
    /\ UNCHANGED <<rec_delays, rec_outcome, rec_result>>

\* resolvePublicationId, lines 239-259, then lines 270-286: the search settles;
\* every failure gives null; without an id the fallback getPosts("new", 1) starts
RecDiscoveryAnswer ==
    /\ RecFrame
    /\ rec_pc = "discovery"
    /\ \E kind \in Settlements, match \in BOOLEAN, id \in PublicationIds :
         LET found == IF kind = "ok" /\ match THEN [given |-> TRUE, v |-> id]
                      ELSE NoPublicationId
         IN /\ (kind # "ok" \/ ~match) => id = 0
            /\ kind # "ok" => ~match
            /\ IF HasPublicationId(found)
                 THEN /\ RecIssue(found)
                      /\ rec_log' = Append(RecSettle(kind),
                                           [to |-> "recommendations", kind |-> "pending"])
                      /\ UNCHANGED nlVars
                 ELSE /\ rec_publicationId' = found
                      /\ rec_log' = RecSettle(kind)
                      /\ rec_pc' = "fallback"
                      /\ FetchPaginatedPostsLocals("getPosts", Params("new", Absent, Absent),
                                                   Limit(1), DEFAULT_PAGE_SIZE)
                      /\ UNCHANGED <<rec_delays, rec_outcome, rec_result>>

\* lines 272-278: getPosts has ended; with a post, its metadata is requested
RecAfterPosts ==
    /\ RecFrame
    /\ rec_pc = "fallback"
    /\ nl_pc = "ended"
    /\ IF nl_outcome = "returned" /\ Len(nl_result) > 0
         THEN /\ rec_pc' = "post"
              /\ rec_log' = Append(rec_log, [to |-> "post", kind |-> "pending"])
              /\ UNCHANGED <<rec_publicationId, rec_outcome, rec_result>>
         ELSE /\ RecEnd("returned", <<>>)
              /\ rec_publicationId' = NoPublicationId
              /\ UNCHANGED rec_log
    /\ UNCHANGED <<nlVars, rec_delays>>

\* lines 274-286: posts[0].getPublicationId() settles (Post.fetchPostData);
\* a failure is caught; publication_id may be missing from the body
RecPostAnswer ==
    /\ RecFrame
    /\ rec_pc = "post"
    /\ \E kind \in Settlements, has \in BOOLEAN, id \in PublicationIds :
         LET found == IF kind = "ok" /\ has THEN [given |-> TRUE, v |-> id]
                      ELSE NoPublicationId
         IN /\ (kind # "ok" \/ ~has) => id = 0
            /\ kind # "ok" => ~has
            /\ IF HasPublicationId(found)
                 THEN /\ RecIssue(found)
                      /\ rec_log' = Append(RecSettle(kind),
                                           [to |-> "recommendations", kind |-> "pending"])
                 ELSE /\ RecEnd("returned", <<>>)
                      /\ rec_publicationId' = found
                      /\ rec_log' = RecSettle(kind)
                      /\ UNCHANGED rec_delays
    /\ UNCHANGED nlVars

\* line 286: what a rejected recommendations request does to the call
RecRejected(kind) == kind = "netfail"

\* lines 286-304: the recommendations request settles
RecAnswer ==
    /\ RecFrame
    /\ rec_pc = "recommendations"
    /\ \E kind \in Settlements, body \in RecBodies :
         /\ kind # "ok" => body = <<>>
         /\ rec_log' = RecSettle(kind)
         /\ IF RecRejected(kind)
              THEN /\ RecEnd("networkError", <<>>)
                   /\ UNCHANGED rec_delays
              ELSE /\ rec_delays' = rec_delays + 1
                   /\ CASE kind = "status" -> RecEnd("returned", <<>>)
                        [] kind = "malformed" -> RecEnd("parseError", <<>>)
                        [] OTHER -> RecEnd("returned", RecUrls(body))
    /\ UNCHANGED <<nlVars, rec_publicationId>>

RecNew ==
    /\ rec_pc = "idle"
    /\ rec_publicationId = NoPublicationId
    /\ rec_log = <<>>
    /\ rec_delays = 0
    /\ rec_outcome = "none"
    /\ rec_result = <<>>

\* the steps of the nested getPosts("new", 1) are those of fetchPaginatedPosts
\* (with limit 1 the call always ends while processing its first page)
RecNext ==
    \/ getRecommendations
    \/ RecDiscoveryAnswer
    \/ NLIssueRequest
    \/ NLServerAnswer
    \/ NLDelay
    \/ NLProcessPage
    \/ RecAfterPosts
    \/ RecPostAnswer
    \/ RecAnswer

(***************************************************************************)
(* stripHtml.  A string is the sequence of its UTF-16 code units, each     *)
(* written as a one-character string, or as chr(n) outside ASCII.          *)
(***************************************************************************)
Chars(str) == [i \in 1..Len(str) |-> SubSeq(str, i, i)]

Ascii ==
    Chars(" !\"#$%&'()*+,-./0123456789:;<=>?@ABCDEFGHIJKLMNOPQRSTUVWXYZ[\\]^_")
        \o <<"chr(96)">> \o Chars("abcdefghijklmnopqrstuvwxyz{|}~")

\* The string of one code unit
Chr(n) ==
    IF n \in 32..126 THEN Ascii[n - 31]
    ELSE IF n = 10 THEN "\n"
    ELSE IF n = 9 THEN "\t"
    ELSE "chr(" \o ToString(n) \o ")"

\* String.fromCharCode, lines 48 and 50: the code is taken modulo 2^16
fromCharCode(n) == Chr(n % 65536)

\* The i flag of the regular expressions
Lower(c) ==
    LET ups == {k \in 1..26 : Ascii[33 + k] = c} IN
      IF ups = {} THEN c ELSE Ascii[65 + CHOOSE k \in ups : TRUE]

\* \s of the regular expressions and the characters String.prototype.trim removes
Whitespace(c) ==
    c \in {" ", "\t", "\n", Chr(11), Chr(12), Chr(13), Chr(160), Chr(5760),
           Chr(8232), Chr(8233), Chr(8239), Chr(8287), Chr(12288), Chr(65279)}
        \cup {Chr(n) : n \in 8192..8202}

HexDigits == Chars("0123456789abcdef")
DigitValue(c) == (CHOOSE k \in 1..16 : HexDigits[k] = Lower(c)) - 1
IsDigit(c, base) == \E k \in 1..base : HexDigits[k] = Lower(c)

\* Number(dec), line 48, and parseInt(hex, 16), line 50
RECURSIVE NumberOf(_, _)
NumberOf(digits, base) ==
    IF digits = <<>> THEN 0
    ELSE NumberOf(SubSeq(digits, 1, Len(digits) - 1), base) * base
           + DigitValue(digits[Len(digits)])

\* lit stands in s at position i (ci: compared without case)
At(s, i, lit, ci) ==
    /\ i + Len(lit) - 1 <= Len(s)
    /\ \A k \in 1..Len(lit) :
          IF ci THEN Lower(s[i + k - 1]) = Lower(lit[k]) ELSE s[i + k - 1] = lit[k]

\* The first position from i on where Test holds, Len(s) + 1 if there is none
FirstFrom(s, i, Test(_)) ==
    LET hits == {j \in i..Len(s) : Test(j)} IN
      IF hits = {} THEN Len(s) + 1 ELSE CHOOSE j \in hits : \A k \in hits : j <= k

\* The patterns of lines 10-19, 48-50 and 54-55, and the literals of replaceAll
Pattern(kind) == [kind |-> kind, lit |-> <<>>, to |-> <<>>]
Literal(lit, to) == [kind |-> "literal", lit |-> Chars(lit), to |-> to]

BlockClosers ==
    {Chars(c) : c \in {"</p>", "</div>", "</h1>", "</h2>", "</h3>", "</h4>", "</h5>",
                       "</h6>", "</li>", "</tr>", "</blockquote>"}}
ListTags == {Chars(c) : c \in {"<ul>", "</ul>", "<ol>", "</ol>"}}

\* The last position of the match of the pattern that starts at i, 0 if none
MatchEnd(pat, s, i) ==
    LET OneOf(lits) ==
            LET hits == {l \in lits : At(s, i, l, TRUE)} IN
              IF hits = {} THEN 0 ELSE i + Len(CHOOSE l \in hits : TRUE) - 1
        Block(open, close) ==
            \* <tag[^>]*>[\s\S]*?</tag>, case-insensitive
            LET gt == FirstFrom(s, i + Len(open), LAMBDA j : s[j] = ">")
                cl == FirstFrom(s, gt + 1, LAMBDA j : At(s, j, close, TRUE))
            IN IF At(s, i, open, TRUE) /\ gt <= Len(s) /\ cl <= Len(s)
                 THEN cl + Len(close) - 1 ELSE 0
        Reference(prefix, base) ==
            \* &#(\d+); and &#x([0-9a-fA-F]+);
            LET from == i + Len(prefix)
                semi == FirstFrom(s, from, LAMBDA j : ~IsDigit(s[j], base))
            IN IF At(s, i, prefix, FALSE) /\ semi > from /\ semi <= Len(s) /\ s[semi] = ";"
                 THEN semi ELSE 0
    IN CASE pat.kind = "script" -> Block(Chars("<script"), Chars("</script>"))
         [] pat.kind = "style" -> Block(Chars("<style"), Chars("</style>"))
         [] pat.kind = "block" -> OneOf(BlockClosers)
         [] pat.kind = "br" ->
              \* <br\s*\/?>, case-insensitive
              LET j == FirstFrom(s, i + 3, LAMBDA k : ~Whitespace(s[k])) IN
                IF ~At(s, i, Chars("<br"), TRUE) \/ j > Len(s) THEN 0
                ELSE IF s[j] = ">" THEN j
                ELSE IF At(s, j, Chars("/>"), FALSE) THEN j + 1
                ELSE 0
         [] pat.kind = "list" -> OneOf(ListTags)
         [] pat.kind = "tag" ->
              \* <[^>]+>
              LET gt == FirstFrom(s, i + 1, LAMBDA j : s[j] = ">") IN
                IF s[i] = "<" /\ gt >= i + 2 /\ gt <= Len(s) THEN gt ELSE 0
         [] pat.kind = "literal" ->
              IF At(s, i, pat.lit, FALSE) THEN i + Len(pat.lit) - 1 ELSE 0
         [] pat.kind = "dec" -> Reference(Chars("&#"), 10)
         [] pat.kind = "hex" -> Reference(Chars("&#x"), 16)
         [] pat.kind = "spaces" ->
              \* [ \t]+
              IF s[i] \in {" ", "\t"}
                THEN FirstFrom(s, i, LAMBDA j : s[j] \notin {" ", "\t"}) - 1 ELSE 0
         [] pat.kind = "blank" ->
              \* \n\s*\n: from a newline to the last newline of the whitespace after it
              LET stop == FirstFrom(s, i + 1, LAMBDA j : ~Whitespace(s[j]))
                  nls == {j \in (i + 1)..(stop - 1) : s[j] = "\n"}
              IN IF s[i] = "\n" /\ nls # {}
                   THEN CHOOSE j \in nls : \A k \in nls : k <= j ELSE 0

\* What the match s[i..e] is replaced with
Replacement(pat, s, i, e) ==
    CASE pat.kind \in {"script", "style", "tag"} -> <<>>
      [] pat.kind \in {"block", "br", "list"} -> <<"\n">>
      [] pat.kind = "literal" -> pat.to
      [] pat.kind = "dec" -> <<fromCharCode(NumberOf(SubSeq(s, i + 2, e - 1), 10))>>
      [] pat.kind = "hex" -> <<fromCharCode(NumberOf(SubSeq(s, i + 3, e - 1), 16))>>
      [] pat.kind = "spaces" -> <<" ">>
      [] pat.kind = "blank" -> <<"\n", "\n">>

\* String.prototype.replace with a global pattern, and replaceAll: the
\* matches are found from left to right in the string as it was
RECURSIVE Replace(_, _, _)
Replace(pat, s, i) ==
    IF i > Len(s) THEN <<>>
    ELSE LET e == MatchEnd(pat, s, i) IN
           IF e = 0 THEN <<s[i]>> \o Replace(pat, s, i + 1)
           ELSE Replacement(pat, s, i, e) \o Replace(pat, s, e + 1)

\* lines 22-41: the entity table, in the order of Object.entries
entities ==
    << Literal("&nbsp;", <<" ">>), Literal("&amp;", <<"&">>), Literal("&lt;", <<"<">>),
       Literal("&gt;", <<">">>), Literal("&quot;", <<"\"">>), Literal("&#39;", <<"'">>),
       Literal("&apos;", <<"'">>), Literal("&mdash;", <<Chr(8212)>>),
       Literal("&ndash;", <<Chr(8211)>>), Literal("&hellip;", <<Chr(8230)>>),
       Literal("&bull;", <<Chr(8226)>>), Literal("&copy;", <<Chr(169)>>),
       Literal("&reg;", <<Chr(174)>>), Literal("&trade;", <<Chr(8482)>>),
       Literal("&euro;", <<Chr(8364)>>), Literal("&pound;", <<Chr(163)>>),
       Literal("&yen;", <<Chr(165)>>), Literal("&cent;", <<Chr(162)>> ) >>

\* The replacements of lines 10-55 in the order the code makes them, each on
\* the result of the one before
RECURSIVE ReplaceEach(_, _, _)
ReplaceEach(pats, s, k) ==
    IF k > Len(pats) THEN s
    ELSE LET replaced == Replace(pats[k], s, 1) IN
           IF replaced = s THEN ReplaceEach(pats, s, k + 1)
           ELSE ReplaceEach(pats, replaced, k + 1)

\* String.prototype.trim
Trim(s) ==
    LET keep == {i \in 1..Len(s) : ~Whitespace(s[i])} IN
      IF keep = {} THEN <<>>
      ELSE SubSeq(s, CHOOSE i \in keep : \A k \in keep : i <= k,
                     CHOOSE i \in keep : \A k \in keep : k <= i)

\* lines 58-61: split("\n"), trim every line, join("\n")
RECURSIVE TrimLines(_)
TrimLines(s) ==
    LET nl == FirstFrom(s, 1, LAMBDA j : s[j] = "\n") IN
      IF nl > Len(s) THEN Trim(s)
      ELSE Trim(SubSeq(s, 1, nl - 1)) \o <<"\n">> \o TrimLines(SubSeq(s, nl + 1, Len(s)))

\* stripHtml, lines 8-65
stripHtml(html) ==
    LET tags == <<Pattern("script"), Pattern("style"), Pattern("block"), Pattern("br"),
                  Pattern("list"), Pattern("tag")>>
        numeric == <<Pattern("dec"), Pattern("hex")>>
        whitespace == <<Pattern("spaces"), Pattern("blank")>>
    IN Trim(TrimLines(ReplaceEach(tags \o entities \o numeric \o whitespace, html, 1)))

\* The pieces the arguments are put together from
Pieces ==
    {Chars(p) : p \in {"&amp;", "&lt;", "lt;", "b", "&gt;", "<b>", "</p>", " ", "\n",
                       "&#", "65;", "<BR />", "&nbsp;", "amp;"}}

\* One character reference alone: a named one, or the decimal or the
\* hexadecimal reference of a code point
CodePoints == {9, 32, 38, 60, 65, 160, 233, 8212, 65535, 65536, 128512, 1114111}

RECURSIVE HexOf(_)
HexOf(n) == IF n < 16 THEN <<HexDigits[n + 1]>>
            ELSE HexOf(n \div 16) \o <<HexDigits[(n % 16) + 1]>>

DecReference(cp) == Chars("&#") \o Chars(ToString(cp)) \o <<";">>
HexReference(cp) == Chars("&#x") \o HexOf(cp) \o <<";">>

References ==
    {entities[k].lit : k \in 1..Len(entities)}
        \cup {DecReference(cp) : cp \in CodePoints}
        \cup {HexReference(cp) : cp \in CodePoints}

\* The strings made of at most n pieces
RECURSIVE Concats(_)
Concats(n) ==
    IF n = 0 THEN {<<>>}
    ELSE LET shorter == Concats(n - 1) IN
           shorter \cup {p \o q : p \in Pieces, q \in shorter}

StripInputs == Concats(MaxPieces) \cup References

StripNew(html) ==
    /\ strip_pc = "argument"
    /\ strip_html = html
    /\ strip_text = <<>>
    /\ strip_again = <<>>

StripParked == StripNew(<<>>)

\* stripHtml(html)
StripOnce ==
    /\ StripFrame
    /\ strip_pc = "argument"
    /\ strip_text' = stripHtml(strip_html)
    /\ strip_pc' = "stripped"
    /\ UNCHANGED <<strip_html, strip_again>>

\* stripHtml applied to its own result
StripAgain ==
    /\ StripFrame
    /\ strip_pc = "stripped"
    /\ strip_again' = stripHtml(strip_text)
    /\ strip_pc' = "again"
    /\ UNCHANGED <<strip_html, strip_text>>

StripNext == StripOnce \/ StripAgain

(***************************************************************************)
(* Post: the metadata cache and the operations that read it.               *)
(***************************************************************************)
\* A string | null value
Null == [null |-> TRUE, v |-> <<>>]
Str(chars) == [null |-> FALSE, v |-> chars]

\* The PostMetadata records the server may hold: body_html missing (or null),
\* empty, or with markup; audience free or paid
Bodies == {Chars(""), Chars("<p>a &amp; b</p>"), Chars("x<br>y")}
PostRecords ==
    {[body_html |-> b, audience |-> a, publication_id |-> 7, truncated_body_text |-> Str(Chars("a"))] :
        b \in {Null} \cup {Str(c) : c \in Bodies}, a \in {"everyone", "only_paid"}}
NoPostData == [present |-> FALSE,
               data |-> [body_html |-> Null, audience |-> "everyone", publication_id |-> 0,
                         truncated_body_text |-> Null]]

\* !content and !html of lines 157 and 173: null and the empty string are falsy
Falsy(content) == content.null \/ content.v = <<>>

\* line 157: the condition of the paywall warning
PaywallWarning(content, audience, attached) ==
    Falsy(content) /\ audience = "only_paid" /\ ~attached

\* lines 171-177: getTextContent from what getContent returned
TextOf(html) == IF Falsy(html) THEN Null ELSE Str(stripHtml(html.v))

NoResult == [kind |-> "none", null |-> TRUE, v |-> <<>>, flag |-> FALSE, id |-> 0,
             data |-> NoPostData.data]

\* lines 143-205: what each operation makes of the metadata
PostFinish(op, data) ==
    LET content == data.body_html
        withContent == op \in {"getContent", "getTextContent"}
    IN /\ post_pc' = "ended"
       /\ post_outcome' = "returned"
       /\ post_content' = IF withContent THEN content ELSE Null
       /\ post_warned' = (withContent /\ PaywallWarning(content, data.audience, post_auth))
       /\ post_result' =
            CASE op = "getMetadata" -> [NoResult EXCEPT !.kind = "metadata", !.data = data]
              [] op = "getContent" ->
                   [NoResult EXCEPT !.kind = "html", !.null = content.null, !.v = content.v]
              [] op = "getTextContent" ->
                   [NoResult EXCEPT !.kind = "text", !.null = TextOf(content).null,
                                    !.v = TextOf(content).v]
              [] op = "getPreviewText" ->
                   [NoResult EXCEPT !.kind = "text", !.null = data.truncated_body_text.null,
                                    !.v = data.truncated_body_text.v]
              [] op = "isPaywalled" ->
                   [NoResult EXCEPT !.kind = "flag", !.flag = (data.audience = "only_paid")]
              [] op = "getPublicationId" ->
                   [NoResult EXCEPT !.kind = "id", !.id = data.publication_id]

PostFail(outcome) ==
    /\ post_pc' = "ended"
    /\ post_outcome' = outcome
    /\ post_result' = NoResult
    /\ post_content' = Null
    /\ post_warned' = FALSE

\* line 106: if (this.postData !== null && !forceRefresh)
PostCacheHit_Never(forceRefresh) == FALSE
PostCacheHit(forceRefresh) == postData.present /\ ~forceRefresh

\* An operation is called; fetchPostData, lines 105-126, answers from the
\* cache or issues the request
PostCall(op, forceRefresh) ==
    /\ PostFrame
    /\ post_pc \in {"idle", "ended"}
    /\ post_op' = op
    /\ post_forceRefresh' = forceRefresh
    /\ post_cacheAtStart' = postData
    /\ IF PostCacheHit(forceRefresh)
         THEN /\ PostFinish(op, postData.data)
              /\ post_requests' = <<>>
              /\ UNCHANGED authVars
         ELSE /\ post_pc' = "inflight"
              /\ SubstackAuthGet(post_auth)
              /\ post_requests' = <<[method |-> "GET", url |-> post_endpoint,
                                     headers |-> RequestHeaders(post_auth)]>>
              /\ post_outcome' = "running"
              /\ post_result' = NoResult
              /\ post_content' = Null
              /\ post_warned' = FALSE
    /\ UNCHANGED <<post_url, post_endpoint, postData>>

getMetadata == \E forceRefresh \in BOOLEAN : PostCall("getMetadata", forceRefresh)
getContent == \E forceRefresh \in BOOLEAN : PostCall("getContent", forceRefresh)
getTextContent == \E forceRefresh \in BOOLEAN : PostCall("getTextContent", forceRefresh)
getPreviewText == PostCall("getPreviewText", FALSE)
isPaywalled == PostCall("isPaywalled", FALSE)
getPublicationId == PostCall("getPublicationId", FALSE)

\* lines 128-135: the throw of line 129, or the rejection of the await of
\* line 113 or 119, leaves fetchPostData before the assignment of line 134
PostDataOnFailure_Cleared(kind) == postData' = NoPostData
PostDataOnFailure(kind) == UNCHANGED postData

\* lines 112-135: the request settles
PostAnswer ==
    /\ PostFrame
    /\ post_pc = "inflight"
    /\ \/ \E data \in PostRecords :
              /\ postData' = [present |-> TRUE, data |-> data]
              /\ PostFinish(post_op, data)
       \/ \E kind \in Settlements \ {"ok"} :
              /\ PostFail(CASE kind = "status" -> "fetchError"
                            [] kind = "netfail" -> "networkError"
                            [] kind = "malformed" -> "parseError")
              /\ PostDataOnFailure(kind)
    /\ UNCHANGED <<authVars, post_url, post_endpoint, post_op, post_forceRefresh, post_requests,
                   post_cacheAtStart>>

\* line 90: parsedUrl.pathname.replace(/^\/|\/$/g, ""): one slash is removed at
\* the start and one at the end (the two cannot be the same character)
TrimSlashes(pathname) ==
    LET q == IF pathname # <<>> /\ Head(pathname) = "/" THEN Tail(pathname) ELSE pathname
    IN IF q # <<>> /\ q[Len(q)] = "/" THEN SubSeq(q, 1, Len(q) - 1) ELSE q

\* lines 90-91: .split("/") and pathParts[pathParts.length - 1]: what follows the
\* last slash; split never gives an empty array, so the slug is never null
LastPathPart(trimmed) ==
    LET slashes == {i \in 1..Len(trimmed) : trimmed[i] = "/"}
        last == IF slashes = {} THEN 0 ELSE CHOOSE i \in slashes : \A j \in slashes : j <= i
    IN SubSeq(trimmed, last + 1, Len(trimmed))

\* lines 87-93: baseUrl, slug and endpoint from the url
EndpointOf(pathname) ==
    [baseUrl |-> "https://a.substack.com", path |-> "/api/v1/posts/",
     slug |-> LastPathPart(TrimSlashes(pathname))]

\* the url of the post in the specifications that do not vary it
PostPath == Chars("/p/hello")
PostEndpoint == EndpointOf(PostPath)

\* The paths the constructor is given where the url varies: every path of at
\* most MaxPathLen characters over a slash and two letters (URL.pathname
\* always starts with a slash)
MaxPathLen == 5
RECURSIVE PathsOfLen(_)
PathsOfLen(n) ==
    IF n = 1 THEN {<<"/">>}
    ELSE {Append(p, c) : p \in PathsOfLen(n - 1), c \in {"/", "a", "b"}}
PostPaths == UNION {PathsOfLen(n) : n \in 1..MaxPathLen}

PostUnbuiltWith(pathname) ==
    /\ post_pc = "unbuilt"
    /\ post_url = pathname
    /\ post_endpoint = [baseUrl |-> "", path |-> "", slug |-> ""]
    /\ postData = NoPostData
    /\ post_op = "none"
    /\ post_forceRefresh = FALSE
    /\ post_requests = <<>>
    /\ post_cacheAtStart = NoPostData
    /\ post_content = Null
    /\ post_warned = FALSE
    /\ post_outcome = "none"
    /\ post_result = NoResult

PostUnbuilt == PostUnbuiltWith(PostPath)

\* new Post(url, auth), lines 83-94
PostNew ==
    /\ PostFrame
    /\ post_pc = "unbuilt"
    /\ \E withAuth \in BOOLEAN :
         /\ withAuth => auth_pc = "built"
         /\ post_auth' = withAuth
    /\ post_endpoint' = EndpointOf(post_url)
    /\ post_pc' = "idle"
    /\ UNCHANGED <<auth_pc, auth_source, cookies, authenticated, auth_outcome, nl_auth,
                   post_url, postData, post_op, post_forceRefresh, post_requests, post_cacheAtStart,
                   post_content, post_warned, post_outcome, post_result>>

PostParked == AuthNew /\ PostUnbuilt

PostNext ==
    \/ SubstackAuthOf
    \/ PostNew
    \/ getMetadata
    \/ getContent
    \/ getTextContent
    \/ getPreviewText
    \/ isPaywalled
    \/ getPublicationId
    \/ PostAnswer

\* The Newsletter and the Post with one Auth Context
AuthNext ==
    \/ SubstackAuthOf
    \/ NewsletterNew
    \/ PostNew
    \/ getPodcasts
    \/ NLIssueRequest
    \/ NLLoopExit
    \/ NLServerAnswer
    \/ NLDelay
    \/ NLProcessPage
    \/ getPublicationId
    \/ PostAnswer

(***************************************************************************)
(* The job (src/index.ts): startCron runs the job once, then sets an        *)
(* interval timer that starts a run at every tick, whether or not an        *)
(* earlier run has ended.  The database and Telegram are enabled and        *)
(* answer; every run reads the same feed, the posts 1..MaxFeed.             *)
(***************************************************************************)
Runs == 1..MaxJobRuns
Feed == 1..MaxFeed

JobParked ==
    /\ job_pc = [r \in Runs |-> "unstarted"]
    /\ job_idx = [r \in Runs |-> 1]
    /\ job_timer = FALSE
    /\ job_stopped = FALSE
    /\ db_posts = {}
    /\ job_fetched = [p \in Feed |-> 0]
    /\ job_saved = [p \in Feed |-> 0]
    /\ job_notified = [p \in Feed |-> 0]

Counted(count, p) == [count EXCEPT ![p] = Min(count[p] + 1, MaxCount)]

\* processNewsletter, lines 313-318: the loop goes to the next post of the
\* feed, and runJob ends after the last one
JobAdvance(r) ==
    /\ job_idx' = [job_idx EXCEPT ![r] = job_idx[r] + 1]
    /\ job_pc' = [job_pc EXCEPT ![r] = IF job_idx[r] + 1 > MaxFeed THEN "done" ELSE "check"]

\* runJob, lines 336-345, up to the first processPost
runJob(r) ==
    /\ job_pc[r] = "unstarted"
    /\ \A earlier \in 1..(r - 1) : job_pc[earlier] # "unstarted"
    /\ job_pc' = [job_pc EXCEPT ![r] = "check"]

\* startCron, lines 383-399: await runJob(), the initial run
startCron ==
    /\ JobFrame
    /\ ~job_timer
    /\ runJob(1)
    /\ UNCHANGED <<job_idx, job_timer, job_stopped, db_posts, job_fetched, job_saved, job_notified>>

\* startCron, lines 401-404: the initial run has ended, setInterval
JobSetInterval ==
    /\ JobFrame
    /\ job_pc[1] = "done"
    /\ ~job_timer
    /\ ~job_stopped
    /\ job_timer' = TRUE
    /\ UNCHANGED <<job_pc, job_idx, job_stopped, db_posts, job_fetched, job_saved, job_notified>>

\* stopCron, lines 412-418: with a timer set, clearInterval and cronInterval = null;
\* the runs in progress are left alone
stopCron ==
    /\ JobFrame
    /\ job_timer
    /\ job_timer' = FALSE
    /\ job_stopped' = TRUE
    /\ UNCHANGED <<job_pc, job_idx, db_posts, job_fetched, job_saved, job_notified>>

\* lines 402-404: a tick of the timer calls runJob(), not awaited
JobTick ==
    /\ JobFrame
    /\ job_timer
    /\ \E r \in Runs : runJob(r)
    /\ UNCHANGED <<job_idx, job_timer, job_stopped, db_posts, job_fetched, job_saved, job_notified>>

\* queries.ts postExists, lines 22-35: a row with this post id
postExists(p) == p \in db_posts

\* processPost, lines 243-247, with isPostAlreadyProcessed, lines 67-78
isPostAlreadyProcessed(r) ==
    /\ JobFrame
    /\ job_pc[r] = "check"
    /\ IF postExists(job_idx[r])
         THEN JobAdvance(r)
         ELSE /\ job_pc' = [job_pc EXCEPT ![r] = "fetch"]
              /\ UNCHANGED job_idx
    /\ UNCHANGED <<job_timer, job_stopped, db_posts, job_fetched, job_saved, job_notified>>

\* processPost, lines 250-251: await post.getTextContent(); when it fails,
\* processNewsletter, lines 327-330, gives the newsletter up for this run
JobFetchContent(r) ==
    /\ JobFrame
    /\ job_pc[r] = "fetch"
    /\ \E fetched \in BOOLEAN :
         IF fetched
           THEN /\ job_fetched' = Counted(job_fetched, job_idx[r])
                /\ job_pc' = [job_pc EXCEPT ![r] = "save"]
           ELSE /\ job_pc' = [job_pc EXCEPT ![r] = "done"]
                /\ UNCHANGED job_fetched
    /\ UNCHANGED <<job_idx, job_timer, job_stopped, db_posts, job_saved, job_notified>>

\* processPost, line 271, savePostToDatabase, lines 85-110, and createPost,
\* queries.ts lines 74-115: the insert, or null on a duplicate key
savePostToDatabase(r) ==
    /\ JobFrame
    /\ job_pc[r] = "save"
    /\ IF job_idx[r] \in db_posts
         THEN UNCHANGED <<db_posts, job_saved>>
         ELSE /\ db_posts' = db_posts \cup {job_idx[r]}
              /\ job_saved' = Counted(job_saved, job_idx[r])
    /\ job_pc' = [job_pc EXCEPT ![r] = "notify"]
    /\ UNCHANGED <<job_idx, job_timer, job_stopped, job_fetched, job_notified>>

\* processPost, lines 274-276, and sendTelegramNotification, lines 186-202
sendTelegramNotification(r) ==
    /\ JobFrame
    /\ job_pc[r] = "notify"
    /\ job_notified' = Counted(job_notified, job_idx[r])
    /\ JobAdvance(r)
    /\ UNCHANGED <<job_timer, job_stopped, db_posts, job_fetched, job_saved>>

JobNext ==
    \/ startCron
    \/ JobSetInterval
    \/ JobTick
    \/ stopCron
    \/ \E r \in Runs : isPostAlreadyProcessed(r)
    \/ \E r \in Runs : JobFetchContent(r)
    \/ \E r \in Runs : savePostToDatabase(r)
    \/ \E r \in Runs : sendTelegramNotification(r)

(***************************************************************************)
(* One run of the job over config.substacks (src/index.ts, runJob and       *)
(* processNewsletter), each awaited call either answering or raising an     *)
(* error.  The database is enabled.                                          *)
(***************************************************************************)
MaxSubstacks == 3
Substacks == 1..MaxSubstacks

\* The calls awaited while one newsletter is processed: upsertNewsletter,
\* getPostsMetadata, and in processPost isPostAlreadyProcessed,
\* getTextContent, savePostToDatabase, sendTelegramNotification, then
\* updateNewsletterFetchTime
PostCalls == {"postExists", "getTextContent", "createPost", "sendDigestItem"}

SubNew(enabled) ==
    /\ sub_enabled = enabled
    /\ sub_pc = "unstarted"
    /\ sub_idx = 1
    /\ sub_status = [n \in Substacks |-> "pending"]
    /\ sub_failure = [n \in Substacks |-> "none"]
    /\ sub_outcome = "none"

SubParked == SubNew([n \in Substacks |-> TRUE])

\* runJob, lines 336-345: up to the loop over config.substacks
SubRunJob ==
    /\ SubFrame
    /\ sub_pc = "unstarted"
    /\ sub_pc' = "loop"
    /\ sub_outcome' = "running"
    /\ UNCHANGED <<sub_enabled, sub_idx, sub_status, sub_failure>>

\* lines 346-349: the loop goes to the next newsletter, or to the summary
SubLoopNext(status, call) ==
    /\ sub_status' = [sub_status EXCEPT ![sub_idx] = status]
    /\ sub_failure' = [sub_failure EXCEPT ![sub_idx] = call]
    /\ sub_idx' = sub_idx + 1
    /\ sub_pc' = IF sub_idx + 1 > MaxSubstacks THEN "stats" ELSE "loop"
    /\ UNCHANGED <<sub_enabled, sub_outcome>>

\* lines 327-330: the catch of processNewsletter logs the error and returns []
SubCaught(call) == SubLoopNext("caught", call)

\* an error raised outside the try, lines 297-300: it leaves processNewsletter
\* and, through the await of line 347, runJob
SubThrown(call) ==
    /\ sub_status' = [sub_status EXCEPT ![sub_idx] = "thrown"]
    /\ sub_failure' = [sub_failure EXCEPT ![sub_idx] = call]
    /\ sub_pc' = "ended"
    /\ sub_outcome' = "newsletterError"
    /\ UNCHANGED <<sub_enabled, sub_idx>>

\* processNewsletter, lines 282-300: a disabled newsletter is skipped; for an
\* enabled one upsertNewsletter is called
processNewsletter ==
    /\ SubFrame
    /\ sub_pc = "loop"
    /\ IF sub_enabled[sub_idx]
         THEN /\ sub_pc' = "upsert"
              /\ sub_status' = [sub_status EXCEPT ![sub_idx] = "entered"]
              /\ UNCHANGED <<sub_enabled, sub_idx, sub_failure, sub_outcome>>
         ELSE SubLoopNext("skipped", "none")

\* lines 297-300 and queries.ts lines 235-251: the insert answers or rejects
upsertNewsletter ==
    /\ SubFrame
    /\ sub_pc = "upsert"
    /\ \E ok \in BOOLEAN :
         IF ok THEN /\ sub_pc' = "archive"
                    /\ UNCHANGED <<sub_enabled, sub_idx, sub_status, sub_failure, sub_outcome>>
         ELSE SubThrown("upsertNewsletter")

\* lines 303-307: newsletter.getPostsMetadata("new", postsPerNewsletter)
SubGetPostsMetadata ==
    /\ SubFrame
    /\ sub_pc = "archive"
    /\ \E ok \in BOOLEAN :
         IF ok THEN /\ sub_pc' = "posts"
                    /\ UNCHANGED <<sub_enabled, sub_idx, sub_status, sub_failure, sub_outcome>>
         ELSE SubCaught("getPostsMetadata")

\* lines 313-318 with processPost, lines 234-277: the posts are processed
\* one after the other; the first call that raises ends the loop
SubProcessPosts ==
    /\ SubFrame
    /\ sub_pc = "posts"
    /\ \/ /\ sub_pc' = "fetchTime"
          /\ UNCHANGED <<sub_enabled, sub_idx, sub_status, sub_failure, sub_outcome>>
       \/ \E call \in PostCalls : SubCaught(call)

\* lines 320-323 and queries.ts lines 256-266
updateNewsletterFetchTime ==
    /\ SubFrame
    /\ sub_pc = "fetchTime"
    /\ \E ok \in BOOLEAN :
         IF ok THEN SubLoopNext("completed", "none")
         ELSE SubCaught("updateNewsletterFetchTime")

\* lines 351-371: getDatabaseStats and the summary
getDatabaseStats ==
    /\ SubFrame
    /\ sub_pc = "stats"
    /\ sub_pc' = "ended"
    /\ \E ok \in BOOLEAN : sub_outcome' = IF ok THEN "returned" ELSE "statsError"
    /\ UNCHANGED <<sub_enabled, sub_idx, sub_status, sub_failure>>

SubNext ==
    \/ SubRunJob
    \/ processNewsletter
    \/ upsertNewsletter
    \/ SubGetPostsMetadata
    \/ SubProcessPosts
    \/ updateNewsletterFetchTime
    \/ getDatabaseStats

(***************************************************************************)
(* Specifications: one per component, the other components at rest.        *)
(***************************************************************************)
NLParked ==
    /\ NLInit
    /\ nl_archive = 0

UserParked ==
    /\ UserNew("old", TRUE)
    /\ srv_status = [h \in Handles |-> [kind |-> "ok", status |-> 200]]
    /\ srv_rev = 0

InitNL == NLInit /\ UserParked /\ CatParked /\ RecNew /\ JobParked /\ SubParked /\ StripParked /\ PostParked
SpecNL == InitNL /\ [][NLNext]_vars

\* fetchPaginatedPosts under the scheduling of the event loop: a request that
\* was sent settles, a timer that was set fires, and a continuation that is
\* ready runs
NLStep ==
    \/ NLIssueRequest
    \/ NLLoopExit
    \/ NLServerAnswer
    \/ NLDelay
    \/ NLProcessPage

InitNLLive ==
    /\ NLInit /\ nl_archive <= MaxLiveArchive
    /\ UserParked /\ CatParked /\ RecNew /\ JobParked /\ SubParked /\ StripParked /\ PostParked
SpecNLLive == InitNLLive /\ [][NLNext]_vars /\ WF_vars(NLStep)

InitUser == UserInit /\ NLParked /\ CatParked /\ RecNew /\ JobParked /\ SubParked /\ StripParked /\ PostParked
SpecUser == InitUser /\ [][UserNext]_vars

CategoryBuilt ==
    \E name \in {NoName} \cup {[given |-> TRUE, v |-> n] : n \in CatNames},
       id \in {NoId} \cup {[given |-> TRUE, v |-> i] : i \in CatIds} :
         /\ name.given \/ id.given
         /\ CategoryNew(name, id)

InitCat ==
    /\ CategoryBuilt
    /\ NLParked /\ UserParked /\ RecNew /\ JobParked /\ SubParked /\ StripParked /\ PostParked
SpecCat == InitCat /\ [][CatNext]_vars

InitRec ==
    /\ NLInit /\ nl_archive <= MaxRecArchive /\ RecNew /\ JobParked /\ SubParked
    /\ UserParked /\ CatParked /\ StripParked /\ PostParked
SpecRec == InitRec /\ [][RecNext]_vars

InitStrip ==
    /\ \E html \in StripInputs : StripNew(html)
    /\ NLParked /\ UserParked /\ CatParked /\ RecNew /\ JobParked /\ SubParked /\ PostParked
SpecStrip == InitStrip /\ [][StripNext]_vars

InitPost ==
    /\ PostParked
    /\ NLParked /\ UserParked /\ CatParked /\ RecNew /\ JobParked /\ SubParked /\ StripParked
SpecPost == InitPost /\ [][PostNext]_vars

\* The constructor of Post over every path of PostPaths
PostNewNext ==
    \/ SubstackAuthOf
    \/ PostNew
InitPostNew ==
    /\ AuthNew
    /\ \E pathname \in PostPaths : PostUnbuiltWith(pathname)
    /\ NLParked /\ UserParked /\ CatParked /\ RecNew /\ JobParked /\ SubParked /\ StripParked
SpecPostNew == InitPostNew /\ [][PostNewNext]_vars

InitAuth ==
    /\ PostParked
    /\ NLInit /\ nl_archive <= MaxAuthArchive
    /\ UserParked /\ CatParked /\ RecNew /\ JobParked /\ SubParked /\ StripParked
SpecAuth == InitAuth /\ [][AuthNext]_vars

\* One Auth Context, built from a cookie file, held by a Newsletter and by a
\* Post at once (newsletter.ts line 84, post.ts line 85): the state after
\* the three constructors
InitShared ==
    /\ \E source \in {c \in CookieSources :
                        \/ c.kind = "missing"
                        \/ c.entries = <<[kind |-> "cookie", name |-> "sid", value |-> "v"]>>} :
         LET loaded == IF source.kind = "iterable"
                         THEN LoadEntries(source.entries, 1, <<>>)
                         ELSE [cookies |-> <<>>, completed |-> FALSE]
         IN /\ auth_source = source
            /\ cookies = loaded.cookies
            /\ authenticated = loaded.completed
    /\ auth_pc = "built"
    /\ auth_outcome = "constructed"
    /\ nl_auth = TRUE
    /\ post_auth = TRUE
    /\ post_pc = "idle"
    /\ post_url = PostPath
    /\ post_endpoint = PostEndpoint
    /\ postData = NoPostData
    /\ post_op = "none"
    /\ post_forceRefresh = FALSE
    /\ post_requests = <<>>
    /\ post_cacheAtStart = NoPostData
    /\ post_content = Null
    /\ post_warned = FALSE
    /\ post_outcome = "none"
    /\ post_result = NoResult
    /\ NLInit /\ nl_archive <= MaxSharedArchive
    /\ UserParked /\ CatParked /\ RecNew /\ JobParked /\ SubParked /\ StripParked

\* The families of operations of the two objects, and whether one was used
InUse(family) ==
    CASE family = "posts" -> nl_pc # "idle" /\ rec_pc = "idle"
      [] family = "recommendations" -> rec_pc # "idle"
      [] family = "authors" -> au_pc # "idle"
      [] family = "post" -> post_pc # "idle"

\* Each behaviour follows the operations of one family on the freshly built
\* objects: no other family was used before
Only(family) ==
    \A other \in {"posts", "recommendations", "authors", "post"} \ {family} : ~InUse(other)

SharedNext ==
    \/ Only("posts") /\ getPosts
    \/ Only("posts") /\ getPostsMetadata
    \/ Only("posts") /\ searchPosts
    \/ Only("posts") /\ getPodcasts
    \/ NLIssueRequest
    \/ NLLoopExit
    \/ NLServerAnswer
    \/ NLDelay
    \/ NLProcessPage
    \/ Only("recommendations") /\ getRecommendations
    \/ RecDiscoveryAnswer
    \/ RecAfterPosts
    \/ RecPostAnswer
    \/ RecAnswer
    \/ Only("authors") /\ getAuthors
    \/ AuthorsAnswer
    \/ Only("post") /\ getMetadata
    \/ Only("post") /\ getContent
    \/ Only("post") /\ getTextContent
    \/ PostAnswer

SpecShared == InitShared /\ [][SharedNext]_vars

\* The three operations that issue several requests, each followed on an
\* object of its class while the objects of the other two classes stay as
\* built
InitAwait ==
    /\ \/ NLInit /\ nl_archive <= MaxAwaitArchive /\ UserParked /\ CatParked
       \/ NLParked /\ UserInit /\ CatParked
       \/ NLParked /\ UserParked /\ CategoryBuilt
    /\ RecNew /\ JobParked /\ SubParked /\ StripParked /\ PostParked

AwaitNext ==
    \/ UserParked /\ CatParked /\ getPosts
    \/ UserParked /\ CatParked /\ getPostsMetadata
    \/ UserParked /\ CatParked /\ searchPosts
    \/ UserParked /\ CatParked /\ getPodcasts
    \/ UserParked /\ CatParked /\ fetchPaginatedPosts
    \/ NLIssueRequest
    \/ NLLoopExit
    \/ NLServerAnswer
    \/ NLDelay
    \/ NLProcessPage
    \/ NLParked /\ CatParked /\ (\E forceRefresh \in BOOLEAN : fetchUserData(forceRefresh))
    \/ UProfileAnswer
    \/ UHandleResponse
    \/ UIssueProbe
    \/ UProbeAnswer
    \/ UAfterProbe
    \/ URetryAnswer
    \/ USettled
    \/ NLParked /\ CatParked /\ UServerChange
    \/ NLParked /\ UserParked /\ CatInit
    \/ NLParked /\ UserParked
          /\ (\E op \in {"getNewsletterUrls", "getNewsletters", "getNewsletterMetadata"} :
                 fetchNewslettersData(op, FALSE))
    \/ NLParked /\ UserParked /\ fetchNewslettersData("refreshData", TRUE)
    \/ CatListAnswer
    \/ CatIssueRequest
    \/ CatLoopExit
    \/ CatPageAnswer
    \/ CatDelayAndAdd

SpecAwait == InitAwait /\ [][AwaitNext]_vars

InitJob ==
    /\ JobParked /\ SubParked
    /\ NLParked /\ UserParked /\ CatParked /\ RecNew /\ StripParked /\ PostParked
SpecJob == InitJob /\ [][JobNext]_vars

InitSub ==
    /\ \E enabled \in [Substacks -> BOOLEAN] : SubNew(enabled)
    /\ JobParked
    /\ NLParked /\ UserParked /\ CatParked /\ RecNew /\ StripParked /\ PostParked
SpecSub == InitSub /\ [][SubNext]_vars

InitCookies == PostParked /\ NLParked /\ UserParked /\ CatParked /\ RecNew /\ JobParked /\ SubParked /\ StripParked
SpecCookies == InitCookies /\ [][SubstackAuthNew]_vars

(***************************************************************************)
(* Properties of Newsletter.fetchPaginatedPosts (checked under SpecNL).    *)
(***************************************************************************)
RECURSIVE ItemsAnswered(_, _)
\* The number of items carried by the first k answers
ItemsAnswered(answers, k) ==
    IF k = 0 THEN 0 ELSE ItemsAnswered(answers, k - 1) + answers[k].n

\* Every request of the call was answered with its archive slice
FaithfulServer ==
    /\ Len(nl_answers) = Len(nl_requests)
    /\ \A i \in 1..Len(nl_answers) : nl_answers[i].faithful

NLEnded == nl_pc = "ended"

\* C1: called with no limit against a server that answers every request with
\* the slice [offset, offset+pageSize), the call returns every item of the
\* archive exactly once and in the archive's order.
C1_NoLimitReturnsWholeArchive ==
    (NLEnded /\ ~nl_limit.given /\ FaithfulServer)
        => (nl_outcome = "returned" /\ nl_result = Wrap(nl_op, Archive))

C1_Witness ==
    /\ NLEnded /\ ~nl_limit.given /\ FaithfulServer
    /\ nl_op = "getPostsMetadata"
    /\ nl_archive = MaxArchive
    /\ Len(nl_requests) = 2
    /\ nl_result = Archive

\* C2: a page with fewer than pageSize items (zero included) is followed by no
\* further request of the call; with no limit and an archive whose length N is
\* not a multiple of pageSize exactly floor(N/pageSize)+1 requests are made.
C2_ShortPageEndsPaging ==
    /\ \A i \in 1..Len(nl_answers) :
         (nl_answers[i].kind = "ok" /\ nl_answers[i].n < nl_pageSize)
             => Len(nl_requests) = i
    /\ (NLEnded /\ ~nl_limit.given /\ FaithfulServer /\ nl_archive % nl_pageSize # 0)
         => Len(nl_requests) = (nl_archive \div nl_pageSize) + 1

C2_Witness ==
    /\ NLEnded /\ ~nl_limit.given /\ FaithfulServer
    /\ nl_archive = 5 /\ nl_pageSize = 2
    /\ Len(nl_requests) = 3
    /\ nl_answers[3].n = 1
    /\ Len(nl_result) = 5

\* C3: for every limit L >= 0 and every archive of N items the result is the
\* first min(L, N) items of the archive, in order.
C3_ResultIsFirstMinLimitItems ==
    (NLEnded /\ nl_limit.given /\ FaithfulServer)
        => (nl_outcome = "returned"
            /\ nl_result = Wrap(nl_op, SliceTo(Archive, nl_limit.n)))

\* C4: with a limit L >= 1 and an archive of at least L items exactly
\* ceil(L / pageSize) requests are issued, and none is issued once the
\* accumulated item count has reached L.
C4_RequestsNeededForLimit ==
    (nl_limit.given /\ nl_limit.n >= 1)
        => /\ \A i \in 2..Len(nl_requests) :
                ItemsAnswered(nl_answers, i - 1) < nl_limit.n
           /\ (NLEnded /\ FaithfulServer /\ nl_archive >= nl_limit.n)
                => Len(nl_requests) = (nl_limit.n + nl_pageSize - 1) \div nl_pageSize

C4_Witness ==
    /\ NLEnded /\ FaithfulServer
    /\ nl_limit = Limit(3) /\ nl_pageSize = 2 /\ nl_archive >= 5
    /\ Len(nl_requests) = 2
    /\ Len(nl_result) = 3

\* C5: a non-2xx page makes the call fail: the items of the earlier pages are
\* not returned and no request follows the failing one.
C5_FailingPageFailsTheCall ==
    \A i \in 1..Len(nl_answers) :
        nl_answers[i].kind = "status"
            => /\ Len(nl_requests) = i
               /\ nl_pc \in {"delay", "page", "ended"}
               /\ NLEnded => (nl_outcome = "fetchError" /\ nl_result = <<>>)

C5_Witness ==
    /\ NLEnded
    /\ Len(nl_answers) = 3
    /\ nl_answers[3].kind = "status"
    /\ Len(nl_results) >= 2
    /\ nl_outcome = "fetchError"

(***************************************************************************)
(* Properties of User.fetchUserData (checked under SpecUser).              *)
(***************************************************************************)
UEnded == u_pc = "ended"

\* C6: one call of fetchUserData issues at most two requests to the profile
\* endpoint and at most one redirect probe, whatever the server answers and
\* whatever followRedirects and forceRefresh are.
C6_AtMostTwoProfileRequestsOneProbe ==
    /\ Cardinality(ProfilesOf(u_requests)) <= 2
    /\ Cardinality(ProbesOf(u_requests)) <= 1

C6_Witness ==
    /\ UEnded
    /\ Cardinality(ProfilesOf(u_requests)) = 2
    /\ Cardinality(ProbesOf(u_requests)) = 1
    /\ u_outcome = "fetchError"

\* The first profile request of the running call was answered 404 with redirect
\* following enabled and no redirect attempted before, and the probe resolved
\* to a handle other than the original one.
RedirectFound ==
    /\ u_response.status = 404
    /\ followRedirects
    /\ ~u_flagAtStart
    /\ u_page.kind = "ok" /\ u_page.at
    /\ u_page.name \notin {NoHandle, originalUsername}

\* C7: in that case the requests are profile(old), probe(old), profile(new), in
\* this order; if the last one answers 2xx the call returns and caches that
\* profile, the current handle is new and originalUsername is still old.
C7_RedirectRequestOrder ==
    (RedirectFound /\ u_pc \in {"retry", "ended"})
        => /\ u_requests = <<ProfileRequest(originalUsername),
                             ProbeRequest(originalUsername),
                             ProfileRequest(u_page.name)>>
           /\ username = u_page.name
           /\ (UEnded /\ srv_status[u_page.name].kind = "ok")
                => /\ u_outcome = "returned"
                   /\ u_result = ProfileOf(u_page.name)
                   /\ userData = u_result

C7_Witness ==
    /\ UEnded /\ RedirectFound
    /\ originalUsername = "old" /\ username = "new"
    /\ u_outcome = "returned"
    /\ userData = ProfileOf("new")

\* C8 as claimed: after a call resolved through a redirect, the next call, with
\* the profile endpoint now answering 404, sends no second probe and fails with
\* a fetch error.
C8_SecondCallFails ==
    (UEnded /\ u_prev.viaRedirect /\ srv_status[endpoint.profile].status = 404)
        => (ProbesOf(u_requests) = {} /\ u_outcome = "fetchError")

\* C8 as amended: the same for a second call with forceRefresh = true (without
\* it the second call returns the cached profile and sends no request).
C8_SecondForcedCallFails ==
    (UEnded /\ u_prev.viaRedirect /\ srv_status[endpoint.profile].status = 404)
        => IF u_forceRefresh
             THEN /\ ProbesOf(u_requests) = {}
                  /\ u_requests = <<ProfileRequest(username)>>
                  /\ u_outcome = "fetchError"
             ELSE /\ u_requests = <<>>
                  /\ u_outcome = "returned"
                  /\ u_result = u_prev.result

C8_Witness ==
    /\ UEnded /\ u_prev.viaRedirect /\ u_forceRefresh
    /\ srv_status[endpoint.profile].status = 404
    /\ username # originalUsername
    /\ u_outcome = "fetchError"

\* C9: over the lifetime of the instance at most one redirect probe is sent:
\* the redirect-attempted flag is set before the probe is sent and is never
\* reset.
C9_AtMostOneProbeEver ==
    [][/\ u_probesEver' <= 1
       /\ redirectAttempted => redirectAttempted'
       /\ (u_probesEver' # u_probesEver) => redirectAttempted]_vars

C9_Witness ==
    /\ UEnded
    /\ u_probesEver = 1
    /\ u_prev.outcome = "fetchError"
    /\ u_requests = <<ProfileRequest(username)>>
    /\ u_response.status = 404
    /\ followRedirects

\* C10 as claimed: once a call has ended, in success or in failure, every later
\* call without forceRefresh ends the same way without any network request.
C10_TerminalAfterAnyEnd ==
    (UEnded /\ u_prev.outcome \in {"returned", "fetchError"} /\ ~u_forceRefresh)
        => /\ u_requests = <<>>
           /\ u_outcome = u_prev.outcome
           /\ u_result = u_prev.result

\* C10 as amended: once a call has succeeded, every later call without
\* forceRefresh returns the profile of the latest successful call without any
\* network request; as long as no call has succeeded nothing is cached, and a
\* call without forceRefresh sends the profile request again.
C10_TerminalAfterSuccessOnly ==
    (UEnded /\ ~u_forceRefresh)
        => IF u_prev.fetched.present
             THEN /\ u_requests = <<>>
                  /\ u_outcome = "returned"
                  /\ u_result = u_prev.fetched
             ELSE Len(u_requests) >= 1

C10_Witness ==
    /\ UEnded /\ ~u_forceRefresh
    /\ u_prev.fetched.present
    /\ u_prev.outcome = "fetchError"
    /\ u_requests = <<>>
    /\ u_result = u_prev.fetched

\* A request of the running call met a network-level failure
FirstRequestNetFailed ==
    Len(u_requests) >= 1 /\ srv_status[u_requests[1].handle].kind = "netfail"
ProbeNetFailed == u_page.kind = "netfail"
RetryNetFailed ==
    Len(u_requests) = 3 /\ srv_status[u_requests[3].handle].kind = "netfail"

\* C11 as claimed: a network-level failure of any request of the call (first
\* profile request, redirect probe or retry) makes the call fail with that
\* network failure.
C11_NetworkFailureAlwaysSurfaces ==
    (UEnded /\ (FirstRequestNetFailed \/ ProbeNetFailed \/ RetryNetFailed))
        => u_outcome = "networkError"

\* C11 as amended: a network-level failure of the first profile request or of
\* the retry makes the call fail with that network failure; a network-level
\* failure of the redirect probe is absorbed by resolveHandleRedirect, and the
\* call fails with the fetch error of the original 404 after two requests.
C11_NetworkFailureSurfacesExceptProbe ==
    UEnded
        => /\ (FirstRequestNetFailed \/ RetryNetFailed) => u_outcome = "networkError"
           /\ ProbeNetFailed
                => /\ u_outcome = "fetchError"
                   /\ u_error.status = 404
                   /\ u_requests = <<ProfileRequest(username), ProbeRequest(username)>>

C11_Witness ==
    /\ UEnded /\ ProbeNetFailed
    /\ u_outcome = "fetchError"
    /\ u_error.status = 404

(***************************************************************************)
(* Properties of Category (checked under SpecCat).                         *)
(***************************************************************************)
CatPageRequests == {i \in 1..Len(cat_requests) : cat_requests[i].to = "category"}

\* C12: one crawl issues at most MAX_CATEGORY_PAGES = 21 category-page
\* requests, whatever the server answers, also when every page reports
\* more = true.
C12_AtMostMaxCategoryPages ==
    Cardinality(CatPageRequests) <= MAX_CATEGORY_PAGES

(***************************************************************************)
(* Properties of Newsletter.getRecommendations (checked under SpecRec).    *)
(***************************************************************************)
\* C13: getRecommendations never fails: whatever the outcomes of the
\* discovery search, the fallback archive and post requests and the
\* recommendations request, it returns a list, and the list is empty when no
\* publication id was resolved or the recommendations request did not succeed.
C13_RecommendationsNeverFail ==
    rec_pc = "ended" =>
        /\ rec_outcome = "returned"
        /\ (~HasPublicationId(rec_publicationId)
              \/ rec_log[Len(rec_log)].kind # "ok") => rec_result = <<>>

(***************************************************************************)
(* Properties of stripHtml (checked under SpecStrip).                      *)
(***************************************************************************)
\* C17: HTML normalization is idempotent: stripHtml(stripHtml(h)) =
\* stripHtml(h) for every input string h.
C17_StripHtmlIdempotent ==
    strip_pc = "again" => strip_again = strip_text

\* C18: decoding the reference of a character c (a named reference of the
\* entity table, or the decimal or hexadecimal reference of its code point)
\* yields exactly c.
C18_ReferenceDecodesToItsCharacter ==
    LET \* the string that holds the one character of code point cp
        StringOf(cp) ==
            IF cp < 65536 THEN <<Chr(cp)>>
            ELSE <<Chr(55296 + ((cp - 65536) \div 1024)),
                   Chr(56320 + ((cp - 65536) % 1024))>>
    IN strip_pc # "argument" =>
         /\ \A k \in 1..Len(entities) :
              strip_html = entities[k].lit => strip_text = entities[k].to
         /\ \A cp \in CodePoints :
              strip_html \in {DecReference(cp), HexReference(cp)}
                 => strip_text = StringOf(cp)

(***************************************************************************)
(* Properties of Post (checked under SpecPost).                            *)
(***************************************************************************)
\* C14: constructing the Post issues no request; a call issues exactly one
\* GET to {baseUrl}/api/v1/posts/{slug} if the cache is empty or forceRefresh
\* is true, and no request otherwise, returning the cached metadata.
C14_PostCacheDecidesRequest ==
    LET fetches == ~post_cacheAtStart.present \/ post_forceRefresh IN
      /\ post_pc \in {"unbuilt", "idle"} => post_requests = <<>>
      /\ post_pc \in {"inflight", "ended"} =>
           /\ Len(post_requests) = IF fetches THEN 1 ELSE 0
           /\ \A i \in 1..Len(post_requests) :
                /\ post_requests[i].method = "GET"
                /\ post_requests[i].url =
                     [baseUrl |-> "https://a.substack.com", path |-> "/api/v1/posts/",
                      slug |-> Chars("hello")]
           /\ ~fetches =>
                /\ post_pc = "ended" /\ post_outcome = "returned"
                /\ postData = post_cacheAtStart
                /\ post_op = "getMetadata" => post_result.data = post_cacheAtStart.data
                /\ post_op = "getPublicationId"
                     => post_result.id = post_cacheAtStart.data.publication_id

C14_Witness ==
    /\ post_pc = "ended"
    /\ post_op = "getMetadata"
    /\ post_cacheAtStart.present
    /\ ~post_forceRefresh
    /\ post_requests = <<>>
    /\ post_result.data = post_cacheAtStart.data

\* C15: getContent emits the paywall warning if and only if the body is
\* absent, the audience is only_paid and no Auth Context is attached; in that
\* case it still returns null and does not fail.
C15_PaywallWarningIffAbsentPaidNoAuth ==
    (post_pc = "ended" /\ post_outcome = "returned" /\ post_op = "getContent") =>
        /\ post_warned <=> /\ postData.data.body_html.null
                           /\ postData.data.audience = "only_paid"
                           /\ ~post_auth
        /\ post_warned => post_result.null

\* C16: getTextContent returns null exactly when getContent returns null, and
\* otherwise the stripHtml of the value getContent returns.
C16_TextNullIffContentNull ==
    (post_pc = "ended" /\ post_outcome = "returned" /\ post_op = "getTextContent") =>
        /\ post_result.null <=> post_content.null
        /\ ~post_content.null => post_result.v = stripHtml(post_content.v)

(***************************************************************************)
(* Properties of SubstackAuth (checked under SpecCookies and SpecAuth).    *)
(***************************************************************************)
\* C19: constructing a SubstackAuth never raises; after a failure (missing
\* or unreadable file, invalid JSON, JSON that is not a list of {name, value}
\* entries) the context is unauthenticated, and authenticated is true only
\* when every cookie entry was loaded.
C19_FailedSourceLeavesUnauthenticated ==
    LET IsCookieList ==
            /\ auth_source.kind = "iterable"
            /\ \A k \in 1..Len(auth_source.entries) : auth_source.entries[k].kind = "cookie"
    IN auth_pc = "built" =>
         /\ auth_outcome = "constructed"
         /\ ~IsCookieList => ~authenticated
         /\ authenticated =>
              \A k \in 1..Len(auth_source.entries) :
                 \E i \in 1..Len(cookies) : cookies[i].name = auth_source.entries[k].name

C21_OperationsLeaveAuthContext ==
    [][cookies' = cookies /\ authenticated' = authenticated]_vars

C21_Witness ==
    /\ authenticated /\ cookies # <<>>
    /\ nl_op = "getPosts" /\ nl_pc = "ended" /\ nl_outcome = "returned"
    /\ Len(nl_result) = 1
    /\ Len(nl_requests) = 1 /\ "Cookie" \in DOMAIN nl_requests[1].headers

\* C22: every archive request issued by fetchPaginatedPosts (each page, the
\* last page and a page answered non-2xx included) is followed by a wait of
\* REQUEST_DELAY that completes before the call issues its next request,
\* returns or fails: whenever the call is between requests or has ended, it
\* has completed as many waits as it has issued requests.
C22_DelayAfterEveryRequest ==
    /\ nl_pc \in {"loop", "page", "ended"} => nl_delays = Len(nl_requests)
    /\ nl_pc \in {"inflight", "delay"} => nl_delays = Len(nl_requests) - 1

\* C23: within one operation (fetchPaginatedPosts, User.fetchUserData with
\* its redirect probe and its retry, Category.fetchNewslettersData) at most
\* one request is in flight at any time: of the requests the operation has
\* issued, all but possibly the last have settled.
C23_OneRequestInFlight ==
    /\ Len(nl_requests) - Len(nl_answers) \in {0, 1}
    /\ Len(u_requests) - u_settled \in {0, 1}
    /\ Len(cat_requests) - cat_settled \in {0, 1}

C23_Witness ==
    /\ u_pc = "retry"
    /\ Len(u_requests) = 3
    /\ u_settled = 2

\* C24: when init() of a Category built with only a name (any string) or only
\* an id (any number, 0 included) has ended, it has either succeeded, and
\* then both the name and the id are known and are those of one entry of the
\* category list, or it has failed; it fails with the not-found error only
\* when no entry has the given name or id.
C24_InitFillsNameAndId ==
    (cat_op = "init" /\ cat_pc = "ended") =>
        /\ cat_outcome = "returned" => cat_name.given /\ cat_id.given
        /\ cat_outcome = "notFoundError" =>
              IF cat_name.given THEN ~FindCategory("name", cat_name.v).found
              ELSE ~FindCategory("id", cat_id.v).found

\* C25: once fetchNewslettersData has succeeded, a call of getNewsletterUrls,
\* getNewsletters or getNewsletterMetadata issues no request, returns the
\* cached list and leaves the cache as it is; a call that crawls while the
\* list is cached is a call of refreshData.
C25_CachedListServesTheGetters ==
    cat_dataAtStart.present /\ cat_op # "none" =>
        /\ cat_op \in {"getNewsletterUrls", "getNewsletters", "getNewsletterMetadata"} =>
              /\ cat_requests = <<>>
              /\ cat_pc = "ended"
              /\ cat_outcome = "returned"
              /\ cat_result = CatWrap(cat_op, cat_dataAtStart.list)
              /\ newslettersData = cat_dataAtStart
        /\ (\E i \in 1..Len(cat_requests) : cat_requests[i].to = "category")
              => cat_op = "refreshData"

C25_Witness ==
    /\ cat_op = "getNewsletterUrls"
    /\ cat_dataAtStart.present
    /\ Len(cat_dataAtStart.list) >= 2
    /\ cat_pc = "ended"
    /\ cat_requests = <<>>
    /\ Len(cat_result) >= 2

\* C26: with the database enabled, over any sequence of runs of the job (the
\* initial run and the runs started by the timer, a run started while an
\* earlier one is still executing included), the content of each post is
\* fetched, the post is saved and it is notified on Telegram at most once.
C26_EachPostProcessedOnce ==
    \A p \in Feed :
        /\ job_fetched[p] <= 1
        /\ job_saved[p] <= 1
        /\ job_notified[p] <= 1

\* C27: fetchUserData sends the redirect probe only when the profile answer
\* is 404, followRedirects is true and no redirect was attempted before on
\* the instance; on any other non-2xx answer, or with followRedirects false,
\* the call fails with the fetch error of that answer after its one profile
\* request, with no probe and with the handle and the endpoint as they were.
C27_ProbeOnlyOnFirst404 ==
    /\ ProbesOf(u_requests) # {}
          => (u_response.status = 404 /\ followRedirects /\ ~u_flagAtStart)
    /\ (UEnded /\ u_response.kind = "status"
            /\ (u_response.status # 404 \/ ~followRedirects))
          => /\ u_outcome = "fetchError"
             /\ u_error.status = u_response.status
             /\ u_requests = <<ProfileRequest(username)>>
             /\ endpoint = ProfileEndpoint(username)
             /\ redirectAttempted = u_flagAtStart

C27_Witness ==
    /\ UEnded
    /\ u_response.status = 500
    /\ followRedirects /\ ~u_flagAtStart
    /\ u_outcome = "fetchError"
    /\ u_requests = <<ProfileRequest(username)>>

\* The probe of the running call has settled and yields no new handle: it was
\* answered non-2xx, it failed, the final path has no @handle first segment,
\* or the handle found is the one probed
ProbeYieldsNothing ==
    /\ Len(u_requests) >= 2
    /\ u_page.kind # "none"
    /\ \/ u_page.kind \in {"status", "netfail"}
       \/ ~u_page.at
       \/ u_page.name = u_requests[2].handle

\* C28: in that case the call fails with the fetch error of the original 404,
\* sends no second profile request, and leaves the handle and the endpoint
\* unchanged.
C28_NoNewHandleFailsWith404 ==
    (UEnded /\ ProbeYieldsNothing)
        => /\ u_outcome = "fetchError"
           /\ u_error.msg = "Failed to fetch user data"
           /\ u_error.status = 404
           /\ u_requests = <<ProfileRequest(username), ProbeRequest(username)>>
           /\ endpoint = ProfileEndpoint(username)
           /\ userData = u_prev.fetched

C28_Witness ==
    /\ UEnded
    /\ u_page.kind = "ok" /\ u_page.at /\ u_page.name = username
    /\ Len(u_requests) = 2
    /\ u_outcome = "fetchError"

\* C29: if the retry against the new handle is not answered 2xx, the call
\* fails and caches nothing, and the instance keeps the new handle and its
\* endpoint, so wasRedirected is true; every profile request of every later
\* call goes to the new handle.
C29_FailedRetryKeepsNewHandle ==
    /\ (UEnded /\ Len(u_requests) = 3 /\ srv_status[u_requests[3].handle].kind # "ok")
          => /\ u_outcome \in {"fetchError", "networkError"}
             /\ userData = u_prev.fetched
             /\ username = u_requests[3].handle
             /\ username # u_requests[1].handle
             /\ endpoint = ProfileEndpoint(username)
             /\ wasRedirected
    /\ (u_flagAtStart /\ wasRedirected)
          => \A i \in ProfilesOf(u_requests) : u_requests[i].handle = username

C29_Witness ==
    /\ UEnded
    /\ u_flagAtStart /\ wasRedirected
    /\ u_prev.outcome = "fetchError"
    /\ ~u_prev.fetched.present
    /\ u_requests = <<ProfileRequest("new")>>
    /\ originalUsername = "old"

\* C30: every call of fetchPaginatedPosts, whatever calls were made before it
\* on the same Newsletter, requests the offsets 0, pageSize, 2*pageSize, ...
\* in this order, each with limit = pageSize and with the filter parameters
\* (sort, search, type) of the call.
C30_OffsetsAdvanceByPageSize ==
    \A i \in 1..Len(nl_requests) :
        /\ nl_requests[i].offset = (i - 1) * nl_pageSize
        /\ nl_requests[i].limit = nl_pageSize
        /\ nl_requests[i].params = nl_params
        /\ i > 1 => nl_requests[i].offset > nl_requests[i - 1].offset

C30_Witness ==
    /\ nl_op = "searchPosts"
    /\ Len(nl_requests) = 2
    /\ nl_requests[1].offset = 0
    /\ nl_requests[2].offset = DEFAULT_PAGE_SIZE
    /\ nl_requests[2].params = nl_requests[1].params
    /\ nl_pc = "ended"

\* C31: every call of fetchPaginatedPosts terminates, by returning or by
\* failing, for every pageSize >= 1 and every limit, no limit included, when
\* each request completes and the archive is finite: a call that is running
\* has eventually ended.
C31_EveryCallTerminates == (nl_outcome = "running") ~> NLEnded

C31_Witness ==
    /\ NLEnded
    /\ ~nl_limit.given
    /\ nl_outcome = "returned"
    /\ nl_pageSize = 2
    /\ Len(nl_requests) = 4
    /\ Len(nl_result) = MaxLiveArchive

\* The bound on the requests of one call is never met: a call on an archive
\* of N items sends at most N + 1 requests
RequestsBelowBound == Len(nl_requests) <= nl_archive + 1

\* The pages requested by the running crawl, in the order of the requests
PagesRequested(requests) ==
    LET RECURSIVE Pages(_)
        Pages(i) == IF i > Len(requests) THEN <<>>
                    ELSE IF requests[i].to = "category"
                           THEN <<requests[i].page>> \o Pages(i + 1)
                           ELSE Pages(i + 1)
    IN Pages(1)

\* C32: a crawl of fetchNewslettersData requests the pages 0, 1, 2, ... one
\* after the other, requests a further page only after a page that answered
\* more = true, and when it returns, the list it returns and caches is the
\* concatenation of the publications of the pages it requested, in page order.
C32_CrawlConcatenatesPages ==
    [][LET pages == PagesRequested(cat_requests')
           crawled == [k \in 1..Len(pages) |-> Pub(k - 1)]
       IN /\ \A k \in 1..Len(pages) : pages[k] = k - 1
          /\ (Len(pages) > Len(PagesRequested(cat_requests)) /\ Len(pages) > 1)
                => (cat_response.kind = "ok" /\ cat_response.more)
          /\ (cat_pc' = "ended" /\ cat_outcome' = "returned" /\ Len(pages) >= 1)
                => /\ newslettersData' = [present |-> TRUE, list |-> crawled]
                   /\ cat_op' # "refreshData" => cat_result' = CatWrap(cat_op', crawled)]_vars

C32_Witness ==
    /\ cat_op = "getNewsletterMetadata"
    /\ cat_pc = "ended" /\ cat_outcome = "returned"
    /\ PagesRequested(cat_requests) = <<0, 1, 2>>
    /\ ~cat_response.more
    /\ cat_result = <<Pub(0), Pub(1), Pub(2)>>
    /\ newslettersData.list = cat_result

\* C33: when a category page is answered non-2xx or its request fails, during
\* a first crawl or during refreshData, fetchNewslettersData fails at that
\* request: it sends no later page request, returns no list, and the cached
\* list is what it was before the call (none, or the list of the last
\* successful crawl).
C33_FailingPageKeepsTheCache ==
    [][/\ (cat_pc = "inflight" /\ cat_pc' = "ended")
            => /\ cat_outcome' \in {"fetchError", "networkError"}
               /\ cat_requests' = cat_requests
               /\ cat_result' = <<>>
               /\ newslettersData' = cat_dataAtStart
       /\ (cat_pc' = "ended" /\ cat_outcome' \in {"fetchError", "networkError"})
            => newslettersData' = cat_dataAtStart']_vars

C33_Witness ==
    /\ cat_op = "refreshData"
    /\ cat_pc = "ended" /\ cat_outcome = "fetchError"
    /\ PagesRequested(cat_requests) = <<0, 1>>
    /\ cat_dataAtStart.present /\ Len(cat_dataAtStart.list) = 3
    /\ newslettersData = cat_dataAtStart
    /\ cat_result = <<>>

\* C34: a fetchPostData that fails (non-2xx answer or network failure) leaves
\* the cached metadata as it was: an empty cache stays empty, and after a
\* failed forced refresh the metadata cached before it is what the next call
\* without forceRefresh returns, with no request.
PostFetchFailed == post_pc = "ended" /\ post_outcome \in {"fetchError", "networkError"}

C34_FailedFetchKeepsPostCache ==
    [][/\ (post_pc = "inflight" /\ PostFetchFailed')
            => /\ postData' = postData
               /\ postData' = post_cacheAtStart'
               /\ ~post_cacheAtStart.present => ~postData'.present
       /\ (PostFetchFailed /\ post_cacheAtStart.present /\ ~post_forceRefresh')
            => /\ post_pc' = "ended"
               /\ post_outcome' = "returned"
               /\ post_requests' = <<>>
               /\ postData' = post_cacheAtStart
               /\ post_op' = "getMetadata" => post_result'.data = post_cacheAtStart.data
               /\ post_op' = "getPublicationId"
                    => post_result'.id = post_cacheAtStart.data.publication_id]_vars

\* a forced refresh of a filled cache has failed with a non-2xx answer
C34_Witness ==
    /\ PostFetchFailed
    /\ post_outcome = "fetchError"
    /\ post_forceRefresh
    /\ post_cacheAtStart.present
    /\ post_cacheAtStart.data.audience = "only_paid"
    /\ postData = post_cacheAtStart
    /\ Len(post_requests) = 1

\* C35: getRecommendations issues the discovery search first; the fallback
\* archive request and the first-post metadata request are issued only if
\* discovery yielded no publication id; the recommendations endpoint is
\* requested only when an id was obtained, and when none was obtained the
\* result is the empty list with no recommendations request.
RecSentTo(log, to) == \E i \in 1..Len(log) : log[i].to = to

C35_FallbackOnlyWithoutDiscoveredId ==
    [][LET obtained(p) == p.given /\ p.v # 0
           discovered == rec_pc = "discovery" /\ obtained(rec_publicationId')
           archiveSent == Len(nl_requests') > Len(nl_requests)
           postSent == RecSentTo(rec_log', "post") /\ ~RecSentTo(rec_log, "post")
           recsSent == RecSentTo(rec_log', "recommendations")
                          /\ ~RecSentTo(rec_log, "recommendations")
       IN /\ rec_log' # <<>> => rec_log'[1].to = "discovery"
          /\ (archiveSent \/ postSent \/ recsSent)
                => (rec_log # <<>> /\ rec_log[1].to = "discovery"
                      /\ (rec_log[1].kind = "pending" => rec_pc = "discovery"))
          /\ discovered => (rec_pc' = "recommendations" /\ recsSent)
          /\ (archiveSent \/ postSent)
                => (~obtained(rec_publicationId) /\ ~RecSentTo(rec_log, "recommendations"))
          /\ (rec_pc = "discovery" /\ rec_pc' = "fallback") => ~obtained(rec_publicationId')
          /\ recsSent => obtained(rec_publicationId')
          /\ (rec_pc' = "ended" /\ ~obtained(rec_publicationId'))
                => (rec_outcome' = "returned" /\ rec_result' = <<>>
                      /\ ~RecSentTo(rec_log', "recommendations"))
          /\ (rec_pc' \in {"post", "recommendations", "ended"} /\ RecSentTo(rec_log', "post"))
                => Len(nl_requests') = 1]_vars

\* discovery gave no id, the archive and the first post were requested, the
\* post gave the id and the recommendations were fetched
C35_Witness ==
    /\ rec_pc = "ended"
    /\ rec_outcome = "returned"
    /\ Len(rec_log) = 3
    /\ rec_log[1] = [to |-> "discovery", kind |-> "status"]
    /\ rec_log[2] = [to |-> "post", kind |-> "ok"]
    /\ rec_log[3] = [to |-> "recommendations", kind |-> "ok"]
    /\ Len(nl_requests) = 1
    /\ rec_publicationId = [given |-> TRUE, v |-> 7]
    /\ Len(rec_result) = 2

\* neither discovery nor the first post gave an id
C35_WitnessNoId ==
    /\ rec_pc = "ended"
    /\ Len(rec_log) = 2
    /\ rec_log[2].to = "post"
    /\ ~HasPublicationId(rec_publicationId)
    /\ rec_result = <<>>

(***************************************************************************)
(* Properties of the Post constructor (checked under SpecPostNew).         *)
(***************************************************************************)
\* the non-empty segments of a path end where a character other than a slash
\* is followed by a slash or by the end of the path
LastNonEmptySegment(pathname) ==
    LET letters == {i \in 1..Len(pathname) : pathname[i] # "/"}
        last == CHOOSE i \in letters : \A j \in letters : j <= i
        before == {i \in 1..last : pathname[i] = "/"}
        slash == CHOOSE i \in before : \A j \in before : j <= i
    IN SubSeq(pathname, slash + 1, last)
HasSegment(pathname) == \E i \in 1..Len(pathname) : pathname[i] # "/"

\* C36: for every URL given to the Post constructor, slug is the last
\* non-empty segment of the URL's path, including for paths that end in one
\* or more slashes, and the metadata endpoint is {baseUrl}/api/v1/posts/{slug}.
C36_SlugIsLastNonEmptySegment ==
    (post_pc = "idle" /\ HasSegment(post_url))
        => post_endpoint = [baseUrl |-> "https://a.substack.com", path |-> "/api/v1/posts/",
                            slug |-> LastNonEmptySegment(post_url)]

\* the same with at most one slash at the end of the path, where it holds
C36_SlugWithOneTrailingSlash ==
    (post_pc = "idle" /\ HasSegment(post_url)
       /\ ~(Len(post_url) >= 2 /\ post_url[Len(post_url)] = "/"
              /\ post_url[Len(post_url) - 1] = "/"))
        => post_endpoint = [baseUrl |-> "https://a.substack.com", path |-> "/api/v1/posts/",
                            slug |-> LastNonEmptySegment(post_url)]

\* a path ending in two slashes has given the empty slug
C36_EmptySlug ==
    /\ post_pc = "idle"
    /\ post_url = Chars("/a//")
    /\ post_endpoint.slug = <<>>

(***************************************************************************)
(* Properties of the decoding of stripHtml (checked under SpecStrip).      *)
(***************************************************************************)
\* The string that holds the one character of code point cp: one code unit
\* up to 0xFFFF, the surrogate pair above
CodePointString(cp) ==
    IF cp < 65536 THEN <<Chr(cp)>>
    ELSE <<Chr(55296 + ((cp - 65536) \div 1024)), Chr(56320 + ((cp - 65536) % 1024))>>

\* the code points whose character the normalization of lines 54-62 keeps
Visible(cp) == ~Whitespace(Chr(cp % 65536))

\* C37: stripHtml decodes a decimal reference &#N; and a hexadecimal
\* reference &#xH; to the character whose code point is N (resp. H), for
\* every code point in 0..0x10FFFF, also above 0xFFFF (no truncation to 16
\* bits).
C37_NumericReferenceGivesCodePoint ==
    strip_pc # "argument" =>
        \A cp \in CodePoints :
            (Visible(cp) /\ strip_html \in {DecReference(cp), HexReference(cp)})
                => strip_text = CodePointString(cp)

\* up to 0xFFFF the reference gives the character
C37_NumericReferenceBelow65536 ==
    strip_pc # "argument" =>
        \A cp \in CodePoints :
            (cp < 65536 /\ Visible(cp) /\ strip_html \in {DecReference(cp), HexReference(cp)})
                => strip_text = CodePointString(cp)

\* the reference of U+1F600 has been decoded to the one unit U+F600
C37_Truncated ==
    /\ strip_pc = "stripped"
    /\ strip_html = HexReference(128512)
    /\ strip_text = <<Chr(62976)>>

\* One pass over the text that decodes the reference standing at each
\* position (a name of the entity table, a decimal or a hexadecimal
\* reference) and goes on after it, so that decoded text is not read again
RECURSIVE DecodeOnce(_, _)
DecodeOnce(s, i) ==
    IF i > Len(s) THEN <<>>
    ELSE LET refs == entities \o <<Pattern("dec"), Pattern("hex")>>
             hits == {k \in 1..Len(refs) : MatchEnd(refs[k], s, i) # 0}
         IN IF hits = {} THEN <<s[i]>> \o DecodeOnce(s, i + 1)
            ELSE LET k == CHOOSE h \in hits : \A g \in hits : h <= g
                     e == MatchEnd(refs[k], s, i)
                 IN Replacement(refs[k], s, i, e) \o DecodeOnce(s, e + 1)

\* C38: stripHtml decodes each entity reference of its input exactly once:
\* text produced by decoding one reference is never decoded again in the same
\* pass (&amp; followed by lt; or #65; stays the text of a reference and is
\* not turned into < or A).
C38_EachReferenceDecodedOnce ==
    LET tags == <<Pattern("script"), Pattern("style"), Pattern("block"), Pattern("br"),
                  Pattern("list"), Pattern("tag")>>
        whitespace == <<Pattern("spaces"), Pattern("blank")>>
        untagged == ReplaceEach(tags, strip_html, 1)
    IN strip_pc # "argument" =>
         strip_text = Trim(TrimLines(ReplaceEach(whitespace, DecodeOnce(untagged, 1), 1)))

\* &amp;lt; has been turned into <
C38_DecodedTwice ==
    /\ strip_pc = "stripped"
    /\ strip_html = Chars("&amp;lt;")
    /\ strip_text = <<"<">>

\* an input without &amp; is decoded once
C38_OnceWithoutAmp ==
    LET tags == <<Pattern("script"), Pattern("style"), Pattern("block"), Pattern("br"),
                  Pattern("list"), Pattern("tag")>>
        whitespace == <<Pattern("spaces"), Pattern("blank")>>
        untagged == ReplaceEach(tags, strip_html, 1)
    IN (strip_pc # "argument" /\ \A i \in 1..Len(strip_html) : ~At(strip_html, i, Chars("&amp;"), FALSE))
         => strip_text = Trim(TrimLines(ReplaceEach(whitespace, DecodeOnce(untagged, 1), 1)))

(***************************************************************************)
(* Properties of the scheduler (checked under SpecJob).                    *)
(***************************************************************************)
RunsInProgress == {r \in Runs : job_pc[r] \notin {"unstarted", "done"}}

\* C39: at most one execution of runJob is in progress at any time: the
\* interval timer set by startCron never starts a run while the previous run
\* has not finished, and after stopCron no new run is started.
C39_OneRunAtATime ==
    [][/\ Cardinality(RunsInProgress') <= 1
       /\ job_stopped => \A r \in Runs : job_pc[r] = "unstarted" => job_pc'[r] = "unstarted"]_vars

\* after stopCron no run is started
C39_NoRunAfterStopCron ==
    [][job_stopped => \A r \in Runs : job_pc[r] = "unstarted" => job_pc'[r] = "unstarted"]_vars

\* two runs started by the timer are in progress together
C39_Overlap ==
    /\ job_timer
    /\ job_pc[2] = "fetch"
    /\ job_pc[3] = "check"

\* a run is still unstarted after stopCron, with an earlier one in progress
C39_Stopped ==
    /\ job_stopped
    /\ job_pc[2] = "save"
    /\ job_pc[3] = "unstarted"

(***************************************************************************)
(* Properties of one run of the job (checked under SpecSub).               *)
(***************************************************************************)
SubFailed(n) == sub_failure[n] # "none"

\* C40: in runJob a failure while processing one configured newsletter (any
\* database call, archive fetch, post fetch, save or notification raising an
\* error) does not stop the run: every later enabled newsletter of
\* config.substacks is still processed in the same run, and runJob itself
\* does not fail.
C40_FailureDoesNotStopTheRun ==
    /\ sub_outcome # "newsletterError"
    /\ sub_pc = "ended" =>
          \A n \in Substacks : \A later \in (n + 1)..MaxSubstacks :
              (SubFailed(n) /\ sub_enabled[later])
                  => sub_status[later] \in {"completed", "caught"}

\* the same for the failures raised inside the try of processNewsletter
C40_CaughtFailureDoesNotStopTheRun ==
    (\A n \in Substacks : sub_failure[n] # "upsertNewsletter")
        => /\ sub_outcome # "newsletterError"
           /\ sub_pc = "ended" =>
                 \A n \in Substacks : \A later \in (n + 1)..MaxSubstacks :
                     (SubFailed(n) /\ sub_enabled[later])
                         => sub_status[later] \in {"completed", "caught"}

\* upsertNewsletter has failed for the first newsletter and the run is over
\* with the second, enabled, never processed
C40_RunStopped ==
    /\ sub_pc = "ended"
    /\ sub_failure[1] = "upsertNewsletter"
    /\ sub_enabled[2]
    /\ sub_status[2] = "pending"
    /\ sub_outcome = "newsletterError"

\* a post fetch has failed for the first newsletter and the later ones were
\* processed
C40_RunWentOn ==
    /\ sub_pc = "ended"
    /\ sub_outcome = "returned"
    /\ sub_failure[1] = "getTextContent"
    /\ sub_status[2] = "completed"
    /\ sub_status[3] = "caught"

====
